---- MODULE Spec2Model ----
(***************************************************************************)
(* Model of the OpenProject MCP server core: the openproject-sync tool     *)
(* (src/src/mcp.ts), the withOpenProject wrapper, the gateway's ETag cache *)
(* and patchWithConflictRetry (src/unnamed/part_003).                      *)
(*                                                                         *)
(* JavaScript runs one callback at a time: an invocation runs from one     *)
(* await to the next without interruption.  The variable cur holds the     *)
(* invocation that is running synchronous code (0 when the event loop is   *)
(* free); an await sets it to 0, a settled promise resumes its invocation  *)
(* only when it is 0.                                                      *)
(***************************************************************************)
EXTENDS Integers, Sequences, FiniteSets, TLC

VARIABLES
    syncLocks,    \* globalThis.__openproject_sync_locks: the set of keys of the Map
    etagCache,    \* etagCache: request key -> [etag, data]
    backendEtag,  \* whether the backend answers GETs with ETag headers (environment)
    coll,         \* number of work packages of every project on the backend (environment)
    cur,          \* invocation running synchronous code, 0 if none
    inv,          \* per invocation of openproject-sync: its position and locals
    pcr,          \* one call of patchWithConflictRetry: its position and locals
    gw,           \* gateway: logical calls in flight, metrics, and the backend resource
    tool          \* one call of another wrapped tool: its context, position and result

vars == <<syncLocks, etagCache, backendEtag, coll, cur, inv, pcr, gw, tool>>

(***************************************************************************)
(* Bounds of the model.                                                    *)
(***************************************************************************)
NumInv == 2          \* concurrent tool invocations
MaxConcItems == 1    \* collection size in the concurrency specification
MaxItems == 5        \* collection size in the pull specification
MaxBatch == 2        \* batchSize values 1..MaxBatch
MaxPush == 2         \* length of itemsToPush
MaxLock == 1         \* lockVersion values 0..MaxLock
NumCalls == 2        \* logical calls made through the gateway
MaxVer == 1          \* versions 0..MaxVer of the backend's resources
MaxOps == 2          \* length of ops of a bulk update
MaxProjects == 5     \* projects of the backend, list-projects-all
MaxPageSize == 3     \* pageSize of list-projects-all
MaxLog == 20         \* requests and notifications followed within one run

Inv == 1..NumInv

NoProject == ""              \* projectId not given (undefined or "": both falsy)
GLOBAL_KEY == "__global__"
NoEtag == << >>
NoStatus == 0                \* an error without response (timeout, connection failure)
NoLock == -1                 \* lockVersion absent / not a number

(***************************************************************************)
(* Values.                                                                 *)
(***************************************************************************)
Projects == {"p1", "p2"}
Directions == {"pull", "push", "both"}

\* A candidate of itemsToPush (z.any()): null, or an object of which the code
\* reads id, subject, description and lockVersion.  0 and "" are the falsy
\* values of id and of the text fields (absent fields are falsy as well).
Candidate(isNull, id, subject, description, lockVersion) ==
    [isNull |-> isNull, id |-> id, subject |-> subject,
     description |-> description, lockVersion |-> lockVersion]

CNull == Candidate(TRUE, 0, "", "", NoLock)
CUpdate == Candidate(FALSE, 1, "s1", "", NoLock)
CUpdateLock == Candidate(FALSE, 2, "", "", 0)
CNoop == Candidate(FALSE, 3, "", "", NoLock)
CCreate == Candidate(FALSE, 0, "s4", "d4", NoLock)

ObjectCandidates == {CUpdate, CUpdateLock, CNoop, CCreate}
Candidates == ObjectCandidates \cup {CNull}

SeqsUpTo(S, n) == UNION {[1..m -> S] : m \in 0..n}

NoItems == [given |-> FALSE, items |-> << >>]
Items(s) == [given |-> TRUE, items |-> s]

NoParams ==
    [projectId |-> NoProject, direction |-> "both", itemsToPush |-> NoItems,
     dryRun |-> FALSE, batchSize |-> 1, hasNotify |-> FALSE, cfgOk |-> TRUE]

ParamSet(projectIds, directions, itemLists, dryRuns, batchSizes, notifies, cfgs) ==
    [projectId : projectIds, direction : directions, itemsToPush : itemLists,
     dryRun : dryRuns, batchSize : batchSizes, hasNotify : notifies, cfgOk : cfgs]

NoResults == [pulled |-> << >>, pushed |-> << >>, errors |-> << >>]
NoOutcome == [kind |-> "none"]

\* Locals of an invocation that has not started (or whose result was discarded).
IdleInv ==
    [pc |-> "idle", prm |-> NoParams, offset |-> 0, elements |-> << >>, idx |-> 1,
     k |-> 1, results |-> NoResults, thrown |-> FALSE, backendFailed |-> FALSE,
     inm |-> NoEtag, outcome |-> NoOutcome, log |-> << >>]

(***************************************************************************)
(* Gateway: the interceptors of getOpenProjectApi on a GET.                *)
(***************************************************************************)
\* key = `${baseURL}${url}`: the query parameters (axios params) are not in it.
CacheKey(url) == url

\* Request interceptor: If-None-Match of the cached ETag of the key, if any.
IfNoneMatch(cache, key) ==
    IF key \in DOMAIN cache THEN cache[key].etag ELSE NoEtag

\* Response interceptor, fulfilled handler: a GET response with an ETag header
\* is stored under the key.
StoreEtag(cache, key, etag, data) ==
    IF etag # NoEtag
    THEN [x \in DOMAIN cache \cup {key} |->
            IF x = key THEN [etag |-> etag, data |-> data] ELSE cache[x]]
    ELSE cache

\* axios settles a response by validateStatus (default: 200 <= status < 300):
\* any other status, 304 included, rejects and goes to the error interceptor.
RejectedOnlyErrors(status) == status = 0 \/ status >= 400
RejectedUnless304(status) == ~(status >= 200 /\ status < 300) /\ status # 304
Rejected(status) == ~(status >= 200 /\ status < 300)

(***************************************************************************)
(* Backend: work packages 1..coll of a project, paged by pageSize/offset.  *)
(***************************************************************************)
Min(a, b) == IF a < b THEN a ELSE b
Max(a, b) == IF a > b THEN a ELSE b

Page(n, offset, pageSize) ==
    [j \in 1..Min(pageSize, Max(n - offset, 0)) |-> offset + j]

WorkPackagesUrl(projectId) == <<"projects", projectId, "work_packages">>

\* The entity tag of one page representation (a backend that sends ETags answers
\* the same request to unchanged data with the same tag).
PageTag(projectId, pageSize, offset) == <<projectId, pageSize, offset>>

GetFailStatuses == {500, NoStatus}
WriteFailStatuses == {409, 422}

\* Terminal responses (after the gateway's retries) to a page GET sent with
\* If-None-Match header inm.
PageReplies(projectId, pageSize, offset, inm) ==
    LET tag == IF backendEtag THEN PageTag(projectId, pageSize, offset) ELSE NoEtag
    IN  (IF backendEtag /\ inm = tag
         THEN {[status |-> 304, etag |-> tag, elements |-> << >>]}
         ELSE {[status |-> 200, etag |-> tag,
                elements |-> Page(coll, offset, pageSize)]})
        \cup {[status |-> s, etag |-> NoEtag, elements |-> << >>] :
                s \in GetFailStatuses}

(***************************************************************************)
(* openproject-sync, wrapped by withOpenProject.                           *)
(***************************************************************************)
\* const LOCK_KEY = projectId || "__global__"
LOCK_KEY_GLOBAL(projectId) == GLOBAL_KEY
LOCK_KEY(projectId) == IF projectId # NoProject THEN projectId ELSE GLOBAL_KEY

\* syncLocks.has(LOCK_KEY)
HasNever(locks, key) == FALSE
Has(locks, key) == key \in locks

\* syncLocks.set(LOCK_KEY, Date.now()); the timestamp is never read
Set(locks, key) == locks \cup {key}

\* The `already in progress` return is before try: finally does not run for it.
RejectedLocksDeleted(locks, key) == locks \ {key}
RejectedLocks(locks, key) == locks

\* finally { syncLocks.delete(LOCK_KEY) }: runs on return and on throw alike
FinallyDeleteAll(locks, key, thrown) == {}
FinallyDeleteNothing(locks, key, thrown) == locks
FinallyDeleteOnReturnOnly(locks, key, thrown) == IF thrown THEN locks ELSE locks \ {key}
FinallyDelete(locks, key, thrown) == locks \ {key}

WantsPull(prm) == prm.direction \in {"pull", "both"}
WantsPushAnyItems(prm) == prm.direction \in {"push", "both"}
WantsPush(prm) == prm.direction \in {"push", "both"} /\ prm.itemsToPush.given

Step(i, r) == inv' = [inv EXCEPT ![i] = r]
Log(i, e) == Append(inv[i].log, e)
PushError(i, e) ==
    [inv[i].results EXCEPT !.errors = Append(inv[i].results.errors, e)]

\* The tool is called: withOpenProject resolves the gateway, the handler checks
\* and takes the lock and enters try.  No await up to here.
Invoke(i, params) ==
    /\ cur = 0
    /\ inv[i].pc = "idle"
    /\ \E prm \in params :
        LET key == LOCK_KEY(prm.projectId) IN
        IF ~prm.cfgOk
        THEN /\ Step(i, [IdleInv EXCEPT !.pc = "done", !.prm = prm,
                            !.outcome = [kind |-> "missingConfig"]])
             /\ UNCHANGED <<syncLocks, cur>>
        ELSE IF Has(syncLocks, key)
        THEN /\ Step(i, [IdleInv EXCEPT !.pc = "done", !.prm = prm,
                            !.outcome = [kind |-> "inProgress", key |-> key]])
             /\ syncLocks' = RejectedLocks(syncLocks, key)
             /\ UNCHANGED cur
        ELSE /\ syncLocks' = Set(syncLocks, key)
             /\ Step(i, [IdleInv EXCEPT !.pc = "pull", !.prm = prm])
             /\ cur' = i
    /\ UNCHANGED <<etagCache, backendEtag, coll, pcr, gw, tool>>

\* if (direction === "pull" || direction === "both") ...
Pull(i) ==
    /\ cur = i
    /\ inv[i].pc = "pull"
    /\ LET prm == inv[i].prm IN
       IF ~WantsPull(prm)
       THEN Step(i, [inv[i] EXCEPT !.pc = "push"])
       ELSE IF prm.projectId = NoProject
       THEN Step(i, [inv[i] EXCEPT !.pc = "push",
                !.results = PushError(i, [kind |-> "projectId is required for pull direction"])])
       ELSE Step(i, [inv[i] EXCEPT !.pc = "fetch", !.offset = 0])
    /\ UNCHANGED <<syncLocks, etagCache, backendEtag, coll, cur, pcr, gw, tool>>

\* await api.get(`/projects/${projectId}/work_packages`, {params: {pageSize, offset}}):
\* the request interceptor runs, the request leaves, the invocation is suspended.
\* (A run is followed for MaxLog requests and notifications.)
FetchPage(i) ==
    /\ cur = i
    /\ inv[i].pc = "fetch"
    /\ Len(inv[i].log) < MaxLog
    /\ LET prm == inv[i].prm
           h == IfNoneMatch(etagCache, CacheKey(WorkPackagesUrl(prm.projectId)))
       IN  Step(i, [inv[i] EXCEPT !.pc = "awaitPage", !.inm = h,
                !.log = Log(i, [op |-> "GET", url |-> WorkPackagesUrl(prm.projectId),
                                pageSize |-> prm.batchSize, offset |-> inv[i].offset,
                                inm |-> h])])
    /\ cur' = 0
    /\ UNCHANGED <<syncLocks, etagCache, backendEtag, coll, pcr, gw, tool>>

\* The page GET settles: a fulfilled response is cached when it has an ETag and
\* the item loop starts; a rejected one is thrown out of the pull loop.
PageSettled(i) ==
    /\ cur = 0
    /\ inv[i].pc = "awaitPage"
    /\ LET prm == inv[i].prm IN
       \E resp \in PageReplies(prm.projectId, prm.batchSize, inv[i].offset, inv[i].inm) :
          IF Rejected(resp.status)
          THEN /\ Step(i, [inv[i] EXCEPT !.pc = "raise", !.thrown = TRUE,
                              !.backendFailed = (resp.status # 304)])
               /\ UNCHANGED etagCache
          ELSE /\ Step(i, [inv[i] EXCEPT !.pc = "item", !.elements = resp.elements,
                              !.idx = 1])
               /\ etagCache' = StoreEtag(etagCache, CacheKey(WorkPackagesUrl(prm.projectId)),
                                         resp.etag, resp.elements)
    /\ cur' = i
    /\ UNCHANGED <<syncLocks, backendEtag, coll, pcr, gw, tool>>

\* for (const el of elements) { results.pulled.push(el); try { await sendNotification } ... }
\* and, after the last element, the loop exit test.
Item(i) ==
    /\ cur = i
    /\ inv[i].pc = "item"
    /\ LET me == inv[i]
           prm == me.prm
           n == Len(me.elements)
       IN  IF me.idx <= n
           THEN LET el == me.elements[me.idx]
                    pulled == [me.results EXCEPT !.pulled = Append(me.results.pulled, el)]
                IN  IF prm.hasNotify
                    THEN /\ Step(i, [me EXCEPT !.pc = "awaitNotify", !.results = pulled,
                                        !.log = Log(i, [op |-> "notify", item |-> el])])
                         /\ cur' = 0
                    ELSE /\ Step(i, [me EXCEPT !.idx = me.idx + 1, !.results = pulled])
                         /\ cur' = i
           ELSE /\ IF n < prm.batchSize
                   THEN Step(i, [me EXCEPT !.pc = "push"])
                   ELSE Step(i, [me EXCEPT !.pc = "fetch", !.offset = me.offset + n])
                /\ cur' = i
    /\ UNCHANGED <<syncLocks, etagCache, backendEtag, coll, pcr, gw, tool>>

\* catch (err) { results.errors.push(`notify error for item ...`) }
NotifyCatch(i, ok) ==
    IF ok THEN inv[i].results
    ELSE PushError(i, [kind |-> "notify error", item |-> inv[i].elements[inv[i].idx]])

\* The try/catch around the notification is inside the for loop: fulfilled or
\* rejected, the loop goes on with the next element.
AfterNotifyNextPage(ok) == "fetch"
AfterNotifyUncaught(ok) == IF ok THEN "item" ELSE "raise"
AfterNotify(ok) == "item"

\* await sendNotification(...) settles: fulfilled or rejected.
NotifySettled(i) ==
    /\ cur = 0
    /\ inv[i].pc = "awaitNotify"
    /\ \E ok \in BOOLEAN :
          Step(i, [inv[i] EXCEPT !.pc = AfterNotify(ok), !.idx = inv[i].idx + 1,
                      !.results = NotifyCatch(i, ok)])
    /\ cur' = i
    /\ UNCHANGED <<syncLocks, etagCache, backendEtag, coll, pcr, gw, tool>>

\* if ((direction === "push" || direction === "both") && Array.isArray(itemsToPush)) ...
Push(i) ==
    /\ cur = i
    /\ inv[i].pc = "push"
    /\ LET prm == inv[i].prm IN
       IF ~WantsPush(prm)
       THEN Step(i, [inv[i] EXCEPT !.pc = "return"])
       ELSE IF prm.projectId = NoProject
       THEN Step(i, [inv[i] EXCEPT !.pc = "return",
                !.results = PushError(i, [kind |-> "projectId is required for push direction"])])
       ELSE Step(i, [inv[i] EXCEPT !.pc = "cand", !.k = 1])
    /\ UNCHANGED <<syncLocks, etagCache, backendEtag, coll, cur, pcr, gw, tool>>

\* The update payload of a candidate: only the fields present (truthy subject and
\* description, numeric lockVersion).
Payload(item) ==
    [subject |-> item.subject, description |-> item.description,
     lockVersion |-> item.lockVersion]

\* Object.keys(payload).length === 0
EmptyPayload(payload) ==
    payload.subject = "" /\ payload.description = "" /\ payload.lockVersion = NoLock

WorkPackageUrl(id) == <<"work_packages", id>>

Pushed(i, e) ==
    [inv[i].results EXCEPT !.pushed = Append(inv[i].results.pushed, e)]

\* Dry run: item.id ? "update" : "create"
PlannedActionUpdate(item) == "update"
PlannedAction(item) == IF item.id # 0 THEN "update" ELSE "create"

\* One candidate of the push loop, up to its await or to the next candidate.
\* Reading item.id of null throws inside try and again inside catch, which leaves
\* the loop.
Cand(i) ==
    /\ cur = i
    /\ inv[i].pc = "cand"
    /\ LET me == inv[i]
           prm == me.prm
           items == prm.itemsToPush.items
       IN  IF me.k > Len(items)
           THEN /\ Step(i, [me EXCEPT !.pc = "return"])
                /\ cur' = i
           ELSE LET item == items[me.k] IN
                IF item.isNull
                THEN /\ Step(i, [me EXCEPT !.pc = "raise", !.thrown = TRUE])
                     /\ cur' = i
                ELSE IF prm.dryRun
                THEN /\ Step(i, [me EXCEPT !.k = me.k + 1,
                            !.results = Pushed(i, [action |-> PlannedAction(item),
                                                   item |-> item])])
                     /\ cur' = i
                ELSE IF item.id # 0 /\ EmptyPayload(Payload(item))
                THEN /\ Step(i, [me EXCEPT !.k = me.k + 1,
                            !.results = Pushed(i, [action |-> "noop", id |-> item.id])])
                     /\ cur' = i
                ELSE IF item.id # 0
                THEN /\ Step(i, [me EXCEPT !.pc = "awaitWrite",
                            !.log = Log(i, [op |-> "PATCH", url |-> WorkPackageUrl(item.id),
                                            payload |-> Payload(item)])])
                     /\ cur' = 0
                ELSE /\ Step(i, [me EXCEPT !.pc = "awaitWrite",
                            !.log = Log(i, [op |-> "POST",
                                            url |-> WorkPackagesUrl(prm.projectId)])])
                     /\ cur' = 0
    /\ UNCHANGED <<syncLocks, etagCache, backendEtag, coll, pcr, gw, tool>>

\* await api.patch(...) / api.post(...) settles.  status 200: the entry is pushed;
\* otherwise catch (err) records `push error for item ...`.
WriteResult(i, status) ==
    LET item == inv[i].prm.itemsToPush.items[inv[i].k] IN
    IF Rejected(status)
    THEN PushError(i, [kind |-> "push error", item |-> item, status |-> status])
    ELSE IF item.id # 0
    THEN Pushed(i, [action |-> "update", id |-> item.id])
    ELSE Pushed(i, [action |-> "create", id |-> 0])

WriteSettled(i) ==
    /\ cur = 0
    /\ inv[i].pc = "awaitWrite"
    /\ \E status \in {200} \cup WriteFailStatuses :
          Step(i, [inv[i] EXCEPT !.pc = "cand", !.k = inv[i].k + 1,
                      !.results = WriteResult(i, status),
                      !.backendFailed = inv[i].backendFailed \/ Rejected(status)])
    /\ cur' = i
    /\ UNCHANGED <<syncLocks, etagCache, backendEtag, coll, pcr, gw, tool>>

\* return { content: [`Sync completed: ...`, JSON.stringify(results)] }, then finally.
Return(i) ==
    /\ cur = i
    /\ inv[i].pc = "return"
    /\ syncLocks' = FinallyDelete(syncLocks, LOCK_KEY(inv[i].prm.projectId), FALSE)
    /\ Step(i, [inv[i] EXCEPT !.pc = "done",
                   !.outcome = [kind |-> "completed", results |-> inv[i].results]])
    /\ cur' = 0
    /\ UNCHANGED <<etagCache, backendEtag, coll, pcr, gw, tool>>

\* An exception leaves the try block: finally, then withOpenProject's catch
\* answers `ERROR: ...`.
Raise(i) ==
    /\ cur = i
    /\ inv[i].pc = "raise"
    /\ syncLocks' = FinallyDelete(syncLocks, LOCK_KEY(inv[i].prm.projectId), TRUE)
    /\ Step(i, [inv[i] EXCEPT !.pc = "done", !.outcome = [kind |-> "error"]])
    /\ cur' = 0
    /\ UNCHANGED <<etagCache, backendEtag, coll, pcr, gw, tool>>

\* The caller has the result; the invocation's locals are gone (results are not
\* persisted) and the slot serves a later call.
Forget(i) ==
    /\ cur = 0
    /\ inv[i].pc = "done"
    /\ Step(i, IdleInv)
    /\ UNCHANGED <<syncLocks, etagCache, backendEtag, coll, cur, pcr, gw, tool>>

IdlePcr == [pc |-> "idle"]

\* const metrics = { calls: 0, errors: 0, retries: 0 }
NoMetrics == [calls |-> 0, errors |-> 0, retries |-> 0]

\* config.__retryCount of a config the error interceptor has not yet seen
NoRetryCount == -1
\* no backoff timer is pending
NoDelay == 0

\* A logical call of the gateway that has not been made: its config (method,
\* url, params, headers["If-None-Match"], the API key of its instance,
\* __retryCount), the attempts sent so
\* far, the status of the last rejected attempt, the pending backoff delay.
Calls == 1..NumCalls
IdleCall ==
    [pc |-> "idle", method |-> "", url |-> << >>, query |-> 0, inm |-> NoEtag,
     apiKey |-> "", retryCount |-> NoRetryCount, attempts |-> 0, status |-> NoStatus,
     delay |-> NoDelay, outcome |-> NoOutcome]

\* The gateway before any call; ver is the version of the backend's resources,
\* hist the GET responses with status 200 and an ETag header received so far.
IdleGw ==
    [calls |-> [c \in Calls |-> IdleCall], metrics |-> NoMetrics, ver |-> 0,
     hist |-> << >>]

\* No call of another wrapped tool is being made; gone holds the URLs of the
\* backend resources deleted so far.
IdleTool == [pc |-> "idle", gone |-> {}]

InitSync(maxItems, etags) ==
    /\ syncLocks = {}
    /\ etagCache = << >>
    /\ backendEtag \in etags
    /\ coll \in 0..maxItems
    /\ cur = 0
    /\ inv = [i \in Inv |-> IdleInv]
    /\ pcr = IdlePcr
    /\ gw = IdleGw
    /\ tool = IdleTool

(***************************************************************************)
(* Spec: concurrent invocations over the scopes.                           *)
(***************************************************************************)
\* Two project scopes and the global scope; every run pulls one-item pages,
\* notifies and pushes one update.
ConcParams ==
    ParamSet(Projects \cup {NoProject}, {"both"}, {Items(<<CUpdate>>)},
             {FALSE}, {1}, {TRUE}, {TRUE})

Init == InitSync(MaxConcItems, {FALSE})

Next ==
    \E i \in Inv :
        \/ Invoke(i, ConcParams)
        \/ Pull(i)
        \/ FetchPage(i)
        \/ PageSettled(i)
        \/ Item(i)
        \/ NotifySettled(i)
        \/ Push(i)
        \/ Cand(i)
        \/ WriteSettled(i)
        \/ Return(i)
        \/ Raise(i)
        \/ Forget(i)

Spec == Init /\ [][Next]_vars

(***************************************************************************)
(* SpecPull: pulls of one project, one after another, over a collection of *)
(* 0..MaxItems items, with and without a notify callback and backend ETags.*)
(***************************************************************************)
PullParams ==
    ParamSet({"p1"}, {"pull"}, {NoItems}, {FALSE}, 1..MaxBatch, BOOLEAN, {TRUE})

InitPull == InitSync(MaxItems, BOOLEAN)

NextPull ==
    \/ Invoke(1, PullParams)
    \/ Pull(1)
    \/ FetchPage(1)
    \/ PageSettled(1)
    \/ Item(1)
    \/ NotifySettled(1)
    \/ Push(1)
    \/ Return(1)
    \/ Raise(1)
    \/ Forget(1)

SpecPull == InitPull /\ [][NextPull]_vars

(***************************************************************************)
(* SpecPush: pushes of every candidate list of length 0..MaxPush.          *)
(***************************************************************************)
PushParams ==
    ParamSet({"p1"}, {"push"}, {Items(s) : s \in SeqsUpTo(Candidates, MaxPush)},
             BOOLEAN, {1}, {FALSE}, {TRUE})

InitPush == InitSync(0, {FALSE})

NextPush ==
    \/ Invoke(1, PushParams)
    \/ Pull(1)
    \/ Push(1)
    \/ Cand(1)
    \/ WriteSettled(1)
    \/ Return(1)
    \/ Raise(1)
    \/ Forget(1)

SpecPush == InitPush /\ [][NextPush]_vars

(***************************************************************************)
(* SpecBoth: runs of one project that pull and then push, one after        *)
(* another, with and without a notify callback.                            *)
(***************************************************************************)
BothParams ==
    ParamSet({"p1"}, {"both"}, {Items(<<CUpdate, CCreate>>)}, {FALSE},
             1..MaxBatch, BOOLEAN, {TRUE})

InitBoth == InitSync(MaxItems, BOOLEAN)

NextBoth ==
    \/ Invoke(1, BothParams)
    \/ Pull(1)
    \/ FetchPage(1)
    \/ PageSettled(1)
    \/ Item(1)
    \/ NotifySettled(1)
    \/ Push(1)
    \/ Cand(1)
    \/ WriteSettled(1)
    \/ Return(1)
    \/ Raise(1)
    \/ Forget(1)

SpecBoth == InitBoth /\ [][NextBoth]_vars

(***************************************************************************)
(* SpecLoop: pulls of one project with the batch sizes the schema accepts, *)
(* zero and negative ones included (z.number() has no lower limit).  The   *)
(* backend answers a page size below one with an empty page.               *)
(***************************************************************************)
\* batchSize: z.number().optional().default(50)
LoopBatchSizes == {-1, 0} \cup (1..MaxBatch)

LoopParams ==
    ParamSet({"p1"}, {"pull"}, {NoItems}, {FALSE}, LoopBatchSizes, BOOLEAN, {TRUE})

InitLoop == InitSync(MaxItems, BOOLEAN)

NextLoop ==
    \/ Invoke(1, LoopParams)
    \/ Pull(1)
    \/ FetchPage(1)
    \/ PageSettled(1)
    \/ Item(1)
    \/ NotifySettled(1)
    \/ Push(1)
    \/ Return(1)
    \/ Raise(1)
    \/ Forget(1)

SpecLoop == InitLoop /\ [][NextLoop]_vars

(***************************************************************************)
(* SpecGlobal: runs called without a project id, in every direction, with  *)
(* and without items to push.                                              *)
(***************************************************************************)
GlobalParams ==
    ParamSet({NoProject}, Directions, {NoItems, Items(<<CUpdate, CCreate>>)},
             BOOLEAN, 1..MaxBatch, BOOLEAN, {TRUE})

InitGlobal == InitSync(MaxConcItems, {FALSE})

NextGlobal ==
    \/ Invoke(1, GlobalParams)
    \/ Pull(1)
    \/ Push(1)
    \/ Return(1)
    \/ Forget(1)

SpecGlobal == InitGlobal /\ [][NextGlobal]_vars

(***************************************************************************)
(* patchWithConflictRetry(api, getUrl, patchUrl, payload, config).         *)
(* An error object is identified by the call that raised it.               *)
(***************************************************************************)
LockVersions == 0..MaxLock

PcrPayloads ==
    [subject : {"s"}, description : {""}, lockVersion : LockVersions \cup {NoLock}]

PatchStatuses == {200, 409, 422, 500, NoStatus}

PcrError(call, status) == [call |-> call, status |-> status]

\* err?.response?.status === 409
IsConflictAny(status) == TRUE
IsConflict(status) == status = 409

\* typeof latestLock === "number"
IsNumber(lockVersion) == lockVersion # NoLock

\* { ...payload, lockVersion: latestLock }
NewPayloadKeepsLock(payload, latestLock) == payload
NewPayload(payload, latestLock) == [payload EXCEPT !.lockVersion = latestLock]

\* The caller's payload after newPayload was built from it: the spread copies
\* it, nothing is assigned to it.
CallerPayloadAssigned(payload, newPayload) == newPayload
CallerPayload(payload, newPayload) == payload

\* catch (err2) { throw err }: the original error, not the recovery's
RecoveryFailedThrowsLast(err, err2) == err2
RecoveryFailed(err, err2) == err

\* The entity tag of a work package representation with lock version v.
WpTag(id, v) == <<"wp", id, v>>

\* Terminal responses to GET /work_packages/id sent with If-None-Match inm: the
\* resource holds some lock version v (or a body without a numeric lockVersion).
WpReplies(id, inm) ==
    UNION {
        LET tag == IF backendEtag THEN WpTag(id, v) ELSE NoEtag IN
        IF backendEtag /\ inm = tag
        THEN {[status |-> 304, etag |-> tag, lockVersion |-> NoLock]}
        ELSE {[status |-> 200, etag |-> tag, lockVersion |-> v]}
        : v \in LockVersions \cup {NoLock} }
    \cup {[status |-> s, etag |-> NoEtag, lockVersion |-> NoLock] : s \in GetFailStatuses}

PcrLog(e) == Append(pcr.log, e)
PcrDone(outcome) == [pcr EXCEPT !.pc = "done", !.outcome = outcome]

\* The gateway's error interceptor:
\* status === 429 || (status >= 500 && status < 600); false without a response
ShouldRetryConflict(status) == status \in {409, 429} \/ (status >= 500 /\ status < 600)
ShouldRetryUnlessClientError(status) == status = 429 \/ ~(status >= 400 /\ status < 500)
ShouldRetryAny(status) == status # NoStatus
ShouldRetry(status) == status = 429 \/ (status >= 500 /\ status < 600)

maxRetries == 4

\* The request in flight of the call: 1 the PATCH, 2 the GET, 3 the PATCH again.
PcrRequest == CASE pcr.pc = "awaitPatch1" -> 1
                [] pcr.pc = "awaitGet" -> 2
                [] pcr.pc = "awaitPatch2" -> 3

\* A new request goes out with a config of its own: no retry counted yet.
PcrSent(p, request) ==
    [p EXCEPT !.retryCount = 0, !.attempts[request] = 1]

\* The gateway rejects a failed attempt to the caller unless it retries it.
GwFinal(status) == ~(ShouldRetry(status) /\ pcr.retryCount < maxRetries)

\* An attempt of the request in flight fails and the gateway's error
\* interceptor sends it again after its delay: the caller sees nothing.
PcrRetried ==
    /\ pcr.pc \in {"awaitPatch1", "awaitGet", "awaitPatch2"}
    /\ \E status \in PatchStatuses :
          /\ Rejected(status)
          /\ ~GwFinal(status)
          /\ pcr' = [pcr EXCEPT !.retryCount = @ + 1,
                                 !.attempts[PcrRequest] = @ + 1,
                                 !.retried = @ \cup {status}]
    /\ UNCHANGED <<syncLocks, etagCache, backendEtag, coll, cur, inv, gw, tool>>

\* try { return await api.patch(patchUrl, payload, config) }
PcrCall ==
    /\ pcr.pc = "idle"
    /\ \E payload \in PcrPayloads :
          pcr' = [pc |-> "awaitPatch1", id |-> 1, payload |-> payload,
                  err |-> PcrError(0, NoStatus), inm |-> NoEtag, latestLock |-> NoLock,
                  outcome |-> NoOutcome, retryCount |-> 0, attempts |-> <<1, 0, 0>>,
                  retried |-> {},
                  log |-> <<[op |-> "PATCH", url |-> WorkPackageUrl(1),
                             payload |-> payload, config |-> "config"]>>]
    /\ UNCHANGED <<syncLocks, etagCache, backendEtag, coll, cur, inv, gw, tool>>

\* The first PATCH settles: returned, thrown at once, or (409) the GET is sent.
Patch1Settled ==
    /\ pcr.pc = "awaitPatch1"
    /\ \E status \in PatchStatuses :
          /\ GwFinal(status)
          /\ IF ~Rejected(status)
             THEN pcr' = PcrDone([kind |-> "returned", call |-> 1])
             ELSE IF IsConflict(status)
             THEN LET h == IfNoneMatch(etagCache, CacheKey(WorkPackageUrl(pcr.id))) IN
                  pcr' = [PcrSent(pcr, 2) EXCEPT !.pc = "awaitGet",
                             !.err = PcrError(1, status), !.inm = h,
                             !.log = PcrLog([op |-> "GET", url |-> WorkPackageUrl(pcr.id),
                                             inm |-> h])]
             ELSE pcr' = PcrDone([kind |-> "thrown", err |-> PcrError(1, status)])
    /\ UNCHANGED <<syncLocks, etagCache, backendEtag, coll, cur, inv, gw, tool>>

\* The GET settles: with a numeric lockVersion the PATCH is repeated with it;
\* without one, or when the GET is rejected, the original error is thrown.
GetSettled ==
    /\ pcr.pc = "awaitGet"
    /\ \E resp \in WpReplies(pcr.id, pcr.inm) :
          /\ GwFinal(resp.status)
          /\ IF Rejected(resp.status)
             THEN /\ pcr' = PcrDone([kind |-> "thrown",
                                     err |-> RecoveryFailed(pcr.err, PcrError(2, resp.status))])
                  /\ UNCHANGED etagCache
             ELSE /\ etagCache' = StoreEtag(etagCache, CacheKey(WorkPackageUrl(pcr.id)),
                                            resp.etag, resp.lockVersion)
                  /\ IF IsNumber(resp.lockVersion)
                     THEN pcr' = [PcrSent(pcr, 3) EXCEPT !.pc = "awaitPatch2",
                                     !.latestLock = resp.lockVersion,
                                     !.payload = CallerPayload(pcr.payload,
                                           NewPayload(pcr.payload, resp.lockVersion)),
                                     !.log = PcrLog([op |-> "PATCH",
                                           url |-> WorkPackageUrl(pcr.id),
                                           payload |-> NewPayload(pcr.payload, resp.lockVersion),
                                           config |-> "config"])]
                     ELSE pcr' = PcrDone([kind |-> "thrown", err |-> pcr.err])
    /\ UNCHANGED <<syncLocks, backendEtag, coll, cur, inv, gw, tool>>

\* The retried PATCH settles: returned, or its error is replaced by the original.
Patch2Settled ==
    /\ pcr.pc = "awaitPatch2"
    /\ \E status \in PatchStatuses :
          /\ GwFinal(status)
          /\ IF ~Rejected(status)
             THEN pcr' = PcrDone([kind |-> "returned", call |-> 3])
             ELSE pcr' = PcrDone([kind |-> "thrown",
                                  err |-> RecoveryFailed(pcr.err, PcrError(3, status))])
    /\ UNCHANGED <<syncLocks, etagCache, backendEtag, coll, cur, inv, gw, tool>>

\* The caller has the outcome; a later call starts afresh (the ETag cache stays).
PcrForget ==
    /\ pcr.pc = "done"
    /\ pcr' = IdlePcr
    /\ UNCHANGED <<syncLocks, etagCache, backendEtag, coll, cur, inv, gw, tool>>

InitPatch == InitSync(0, BOOLEAN)

NextPatch ==
    \/ PcrCall
    \/ PcrRetried
    \/ Patch1Settled
    \/ GetSettled
    \/ Patch2Settled
    \/ PcrForget

SpecPatch == InitPatch /\ [][NextPatch]_vars

(***************************************************************************)
(* The gateway: one logical call api.<method>(url, { params }) through the  *)
(* interceptors of getOpenProjectApi.  etagCache and metrics are module     *)
(* level, shared by every instance; an instance holds no state of its own   *)
(* (the retry re-enters the instance that made the attempt).  Calls are     *)
(* numbered in the order they are made.                                     *)
(***************************************************************************)
\* A request: method as axios holds it (lower case), url, query (params).
Request(method, url, query) == [method |-> method, url |-> url, query |-> query]

\* req.method.toLowerCase() === "get"
IsGetRequest(method) == method = "get"

\* response.config.method === "get"
IsGetResponseAny(method) == TRUE
IsGetResponse(method) == method = "get"

\* metrics.inc(name)
MetricsInc(metrics, name) == [metrics EXCEPT ![name] = @ + 1]

\* Request interceptor on one attempt: a GET with a cached ETag under its key
\* gets the header; a header already on the config stays.
Attempt(call) ==
    LET h == IfNoneMatch(etagCache, CacheKey(call.url)) IN
    [call EXCEPT !.pc = "sent", !.attempts = @ + 1, !.status = NoStatus,
                 !.delay = NoDelay,
                 !.inm = IF IsGetRequest(call.method) /\ h # NoEtag THEN h ELSE @]

\* Response interceptor, fulfilled handler, first part: store the ETag of a GET.
OnFulfilled(cache, method, key, etag, data) ==
    IF IsGetResponse(method) THEN StoreEtag(cache, key, etag, data) ELSE cache

\* Fulfilled handler, second part: a 304 with an entry under the key becomes
\* { ...response, status: 200, data: cached.data }.
Fulfilled(cache, key, resp) ==
    IF resp.status = 304 /\ key \in DOMAIN cache
    THEN [kind |-> "fulfilled", status |-> 200, data |-> cache[key].data]
    ELSE [kind |-> "fulfilled", status |-> resp.status, data |-> resp.data]

\* config.__retryCount || 0
RetryCountShared(c) == gw.metrics.retries
RetryCount(c) ==
    IF gw.calls[c].retryCount = NoRetryCount THEN 0 ELSE gw.calls[c].retryCount

RECURSIVE Pow(_, _)
Pow(b, n) == IF n = 0 THEN 1 ELSE b * Pow(b, n - 1)

\* Math.floor(Math.random() * 100) lies in 0..JitterRange-1; its extremes
JitterRange == 100
Jitters == {0, JitterRange - 1}

\* Math.pow(2, config.__retryCount) * 100 + jitter
DelayFromOne(count, jitter) == Pow(2, count - 1) * 100 + jitter
Delay(count, jitter) == Pow(2, count) * 100 + jitter

\* The representation of (url, query) at version ver, and its entity tag.
Rep(url, query, ver) == [url |-> url, query |-> query, ver |-> ver]
RepTag(url, query, ver) == <<url, query, ver>>
NoBody == << >>

\* What the backend can answer to the attempt in flight of a call: a GET gets
\* 304 (with or without an ETag header, no body) when its If-None-Match is the
\* tag of the current representation and 200 otherwise; a write succeeds,
\* changing the resource or not; any request can fail with a status of fails.
GwReplies(call, fails) ==
    LET tag(v) == IF backendEtag THEN RepTag(call.url, call.query, v) ELSE NoEtag
    IN  (IF call.method = "get"
         THEN IF backendEtag /\ call.inm = tag(gw.ver)
              THEN {[status |-> 304, etag |-> e, data |-> NoBody, ver |-> gw.ver] :
                        e \in {tag(gw.ver), NoEtag}}
              ELSE {[status |-> 200, etag |-> tag(gw.ver),
                     data |-> Rep(call.url, call.query, gw.ver), ver |-> gw.ver]}
         ELSE {[status |-> 200, etag |-> tag(v),
                data |-> Rep(call.url, call.query, v), ver |-> v] :
                    v \in {gw.ver, Min(gw.ver + 1, MaxVer)}})
        \cup {[status |-> s, etag |-> NoEtag, data |-> NoBody, ver |-> gw.ver] :
                s \in fails}

\* The GET responses with status 200 and an ETag header, in order of arrival.
Hist(hist, call, resp) ==
    IF call.method = "get" /\ resp.status = 200 /\ resp.etag # NoEtag
    THEN Append(hist, [url |-> call.url, query |-> call.query,
                       etag |-> resp.etag, data |-> resp.data])
    ELSE hist

\* api.<method>(url, { params }): the request interceptor runs and the first
\* attempt is sent.
GwRequest(c, requests) ==
    /\ gw.calls[c].pc = "idle"
    /\ \A d \in Calls : d < c => gw.calls[d].pc # "idle"
    /\ \E r \in requests :
          gw' = [gw EXCEPT
                    !.calls[c] = Attempt([IdleCall EXCEPT !.method = r.method,
                                             !.url = r.url, !.query = r.query]),
                    !.metrics = MetricsInc(@, "calls")]
    /\ UNCHANGED <<syncLocks, etagCache, backendEtag, coll, cur, inv, pcr, tool>>

\* The attempt in flight settles.  Fulfilled: the response interceptor's first
\* handler.  Rejected: its second handler, which schedules a retry or rejects.
GwSettle(c, replies) ==
    LET call == gw.calls[c]
        key == CacheKey(call.url) IN
    /\ call.pc = "sent"
    /\ \E resp \in replies, jitter \in Jitters :
          IF ~Rejected(resp.status)
          THEN /\ etagCache' = OnFulfilled(etagCache, call.method, key,
                                           resp.etag, resp.data)
               /\ gw' = [gw EXCEPT
                            !.calls[c] = [call EXCEPT !.pc = "done",
                                            !.status = resp.status,
                                            !.outcome = Fulfilled(etagCache', key, resp)],
                            !.ver = resp.ver,
                            !.hist = Hist(@, call, resp)]
          ELSE /\ UNCHANGED etagCache
               /\ IF ShouldRetry(resp.status) /\ RetryCount(c) < maxRetries
                  THEN gw' = [gw EXCEPT
                                !.calls[c] = [call EXCEPT !.pc = "waiting",
                                                !.status = resp.status,
                                                !.retryCount = RetryCount(c) + 1,
                                                !.delay = Delay(RetryCount(c) + 1, jitter)],
                                !.metrics = MetricsInc(MetricsInc(@, "errors"), "retries"),
                                !.hist = Hist(@, call, resp)]
                  ELSE gw' = [gw EXCEPT
                                !.calls[c] = [call EXCEPT !.pc = "done",
                                                !.status = resp.status,
                                                !.retryCount = RetryCount(c),
                                                !.outcome = [kind |-> "rejected",
                                                             attempt |-> call.attempts,
                                                             status |-> resp.status]],
                                !.metrics = MetricsInc(@, "errors"),
                                !.hist = Hist(@, call, resp)]
    /\ UNCHANGED <<syncLocks, backendEtag, coll, cur, inv, pcr, tool>>

GwRespond(c, fails) == GwSettle(c, GwReplies(gw.calls[c], fails))

\* The backoff timer fires: instance.request(config), so the request
\* interceptor runs again on the same config.
GwRetry(c) ==
    /\ gw.calls[c].pc = "waiting"
    /\ gw' = [gw EXCEPT !.calls[c] = Attempt(gw.calls[c]),
                        !.metrics = MetricsInc(@, "calls")]
    /\ UNCHANGED <<syncLocks, etagCache, backendEtag, coll, cur, inv, pcr, tool>>

(***************************************************************************)
(* SpecRetry: concurrent calls against a backend that fails at will.       *)
(***************************************************************************)
RetryRequests == {Request(m, WorkPackageUrl(1), 0) : m \in {"get", "post"}}
RetryFails == {404, 429, 500, 599, NoStatus}

InitRetry == InitSync(0, {FALSE})

NextRetry ==
    \E c \in Calls :
        \/ GwRequest(c, RetryRequests)
        \/ GwRespond(c, RetryFails)
        \/ GwRetry(c)

SpecRetry == InitRetry /\ [][NextRetry]_vars

(***************************************************************************)
(* SpecCache: reads of two pages of a list and writes to it, against a     *)
(* backend that answers conditional requests.                              *)
(***************************************************************************)
CacheRequests ==
    {Request("get", WorkPackagesUrl("p1"), q) : q \in {0, 1}}
    \cup {Request(m, WorkPackagesUrl("p1"), 0) : m \in {"post", "patch", "delete"}}
CacheFails == {404}

InitCache == InitSync(0, BOOLEAN)

NextCache ==
    \E c \in Calls :
        \/ GwRequest(c, CacheRequests)
        \/ GwRespond(c, CacheFails)

SpecCache == InitCache /\ [][NextCache]_vars

(***************************************************************************)
(* SpecKeys: reads of one resource by callers with different API keys       *)
(* (per-call config overrides against the same base URL).  Every call has   *)
(* an instance of its own; etagCache is shared by all of them.  The backend *)
(* shows every key a representation of its own and tags a representation    *)
(* by the resource and its version alone.                                   *)
(***************************************************************************)
ApiKeys == {"key1", "key2"}

\* The representation of (url, query) at version ver as the key may see it.
RepFor(url, query, ver, apiKey) ==
    [url |-> url, query |-> query, ver |-> ver, apiKey |-> apiKey]

\* getOpenProjectApi(context.config).get(url, { params }) under an override.
GwRequestAs(c, requests, apiKeys) ==
    /\ gw.calls[c].pc = "idle"
    /\ \A d \in Calls : d < c => gw.calls[d].pc # "idle"
    /\ \E r \in requests, apiKey \in apiKeys :
          gw' = [gw EXCEPT
                    !.calls[c] = Attempt([IdleCall EXCEPT !.method = r.method,
                                             !.url = r.url, !.query = r.query,
                                             !.apiKey = apiKey]),
                    !.metrics = MetricsInc(@, "calls")]
    /\ UNCHANGED <<syncLocks, etagCache, backendEtag, coll, cur, inv, pcr, tool>>

\* What the backend can answer to a GET made with the call's key.
GwRepliesAs(call, fails) ==
    LET tag == IF backendEtag THEN RepTag(call.url, call.query, gw.ver) ELSE NoEtag
    IN  (IF backendEtag /\ call.inm = tag
         THEN {[status |-> 304, etag |-> e, data |-> NoBody, ver |-> gw.ver] :
                   e \in {tag, NoEtag}}
         ELSE {[status |-> 200, etag |-> tag,
                data |-> RepFor(call.url, call.query, gw.ver, call.apiKey),
                ver |-> gw.ver]})
        \cup {[status |-> s, etag |-> NoEtag, data |-> NoBody, ver |-> gw.ver] :
                s \in fails}

GwRespondAs(c, fails) == GwSettle(c, GwRepliesAs(gw.calls[c], fails))

KeysRequests == {Request("get", WorkPackagesUrl("p1"), q) : q \in {0, 1}}
KeysFails == {404}

InitKeys == InitSync(0, BOOLEAN)

NextKeys ==
    \E c \in Calls :
        \/ GwRequestAs(c, KeysRequests, ApiKeys)
        \/ GwRespondAs(c, KeysFails)

SpecKeys == InitKeys /\ [][NextKeys]_vars

(***************************************************************************)
(* SpecCfg: a tool wrapped by withOpenProject, called with every override  *)
(* (context.config) and environment (process.env).                         *)
(***************************************************************************)
\* A setting that was not given at all (undefined), as distinct from "".
Undefined == "<undefined>"

\* A setting that is the empty string.
Absent == ""
Settings == {Undefined, Absent, "set"}

\* OpenProjectConfig / process.env: the two settings the gateway requires.
Configs == [OPENPROJECT_API_KEY : Settings, OPENPROJECT_URL : Settings]

\* !v for a setting: undefined and the empty string are falsy.
Falsy(v) == v = Undefined \/ v = Absent

\* config?.X || process.env.X
ResolveEnvFirst(override, env) == IF ~Falsy(env) THEN env ELSE override
Resolve(override, env) == IF ~Falsy(override) THEN override ELSE env

\* getOpenProjectApi(config): null when the key or the URL resolves to nothing,
\* an instance for the resolved settings otherwise.
NoApi == [null |-> TRUE, key |-> Absent, url |-> Absent]
GetOpenProjectApiKeyOnly(config, env) ==
    LET key == Resolve(config.OPENPROJECT_API_KEY, env.OPENPROJECT_API_KEY)
        url == Resolve(config.OPENPROJECT_URL, env.OPENPROJECT_URL) IN
    IF Falsy(key) THEN NoApi ELSE [null |-> FALSE, key |-> key, url |-> url]
GetOpenProjectApi(config, env) ==
    LET key == Resolve(config.OPENPROJECT_API_KEY, env.OPENPROJECT_API_KEY)
        url == Resolve(config.OPENPROJECT_URL, env.OPENPROJECT_URL) IN
    IF Falsy(key) \/ Falsy(url)
    THEN NoApi
    ELSE [null |-> FALSE, key |-> key, url |-> url]

\* Tool parameters together with the context of the call; cfgOk is
\* withOpenProject's test of the gateway it resolved (!openProjectApi).
WithContext(params, configs, envs) ==
    {[projectId |-> prm.projectId, direction |-> prm.direction,
      itemsToPush |-> prm.itemsToPush, dryRun |-> prm.dryRun,
      batchSize |-> prm.batchSize, hasNotify |-> prm.hasNotify,
      cfgOk |-> ~GetOpenProjectApi(config, env).null,
      config |-> config, env |-> env] :
        prm \in params, config \in configs, env \in envs}

CfgParams ==
    WithContext(ParamSet({"p1"}, {"push"}, {Items(<<CUpdate>>), Items(<<CNull>>)},
                         BOOLEAN, {1}, {FALSE}, {TRUE}),
                Configs, Configs)

InitCfg == InitSync(0, {FALSE})

NextCfg ==
    \/ Invoke(1, CfgParams)
    \/ Pull(1)
    \/ Push(1)
    \/ Cand(1)
    \/ WriteSettled(1)
    \/ Return(1)
    \/ Raise(1)
    \/ Forget(1)

SpecCfg == InitCfg /\ [][NextCfg]_vars

(***************************************************************************)
(* The other wrapped tools.  A JavaScript string is a sequence of pieces   *)
(* (its concatenation); an object is the sequence of its entries.          *)
(***************************************************************************)
\* config?.X || process.env.X || "v3"
ResolveVersion(override, env) ==
    LET v == Resolve(override, env) IN IF ~Falsy(v) THEN v ELSE "v3"

\* The three settings as getOpenProjectApi resolves them; an undefined config
\* (config?.X) is a config whose settings are all undefined.
ResolveConfig(config, env) ==
    [apiKey |-> Resolve(config.OPENPROJECT_API_KEY, env.OPENPROJECT_API_KEY),
     baseUrl |-> Resolve(config.OPENPROJECT_URL, env.OPENPROJECT_URL),
     apiVersion |-> ResolveVersion(config.OPENPROJECT_API_VERSION,
                                   env.OPENPROJECT_API_VERSION)]

\* The context of a call: the override (context.config) and process.env.
FullConfigs(values) ==
    [OPENPROJECT_API_KEY : values, OPENPROJECT_URL : values,
     OPENPROJECT_API_VERSION : values]
Contexts(overrides, envs) == [config : overrides, env : envs]

\* Entries of an object: a string value s or a nested object o under key k.
StrE(k, s) == [k |-> k, obj |-> FALSE, s |-> s, o |-> << >>]
ObjE(k, o) == [k |-> k, obj |-> TRUE, s |-> << >>, o |-> o]

\* "k" in obj && typeof obj.k === "object"
IsObjAt(o, k) == \E n \in DOMAIN o : o[n].k = k /\ o[n].obj
Child(o, k) == o[CHOOSE n \in DOMAIN o : o[n].k = k /\ o[n].obj].o

REDACTED == <<"[REDACTED]">>

\* if (k in obj) obj[k] = "[REDACTED]", for each k of keys
RedactKeys(o, keys) ==
    [n \in DOMAIN o |-> IF o[n].k \in keys THEN StrE(o[n].k, REDACTED) ELSE o[n]]
ReplaceChild(o, k, c) ==
    [n \in DOMAIN o |-> IF o[n].k = k /\ o[n].obj THEN ObjE(k, c) ELSE o[n]]

\* /token|secret|apikey|api_key/i.test(k), on the keys that occur here
SecretKey(k) == k \in {"token", "secret", "apikey", "api_key", "apiKey"}

\* walk(obj) of redact: headers of obj, config of obj (baseURL, url, headers),
\* then every entry: string values under secret keys, and nested objects.
RECURSIVE Walk(_)
Walk(o) ==
    LET a == IF IsObjAt(o, "headers")
             THEN ReplaceChild(o, "headers",
                     RedactKeys(Child(o, "headers"),
                                {"authorization", "Authorization", "set-cookie"}))
             ELSE o
        b == IF IsObjAt(a, "config")
             THEN LET c == RedactKeys(Child(a, "config"), {"baseURL", "url"})
                      d == IF IsObjAt(c, "headers")
                           THEN ReplaceChild(c, "headers",
                                   RedactKeys(Child(c, "headers"),
                                              {"authorization", "Authorization"}))
                           ELSE c
                  IN  ReplaceChild(a, "config", d)
             ELSE a
    IN  [n \in DOMAIN b |->
            IF ~b[n].obj /\ SecretKey(b[n].k) THEN StrE(b[n].k, REDACTED)
            ELSE IF b[n].obj THEN ObjE(b[n].k, Walk(b[n].o))
            ELSE b[n]]

\* redact(value) of an object: walk a clone of it
Redact(value) == Walk(value)

\* JSON.stringify of an object: its keys and string values in order.
RECURSIVE Json(_)
Json(o) ==
    IF o = << >> THEN << >>
    ELSE LET e == Head(o) IN
         <<e.k>> \o (IF e.obj THEN Json(e.o) ELSE e.s) \o Json(Tail(o))

\* safeStringify(value) of an object
SafeStringify(value) == Json(Redact(value))

\* baseURL and the Authorization header of an instance (base64 is invertible:
\* the header gives the key away).
BaseURL(settings) == <<settings.baseUrl, "/api/", settings.apiVersion>>
Authorization(settings) == <<"Basic ", "apikey:", settings.apiKey>>

\* The config axios puts on the error of a request of an instance.
RequestConfig(settings, method, url) ==
    <<StrE("url", url), StrE("method", <<method>>),
      StrE("baseURL", BaseURL(settings)),
      ObjE("headers", <<StrE("Content-Type", <<"application/json">>),
                        StrE("Authorization", Authorization(settings)),
                        StrE("User-Agent", <<"mcp-openproject/1.0">>)>>),
      StrE("timeout", <<"15000">>)>>

\* What a handler can catch: an axios error with a response (status, body),
\* an axios error without one, or an error that is not an axios error.
\* cyclic: the config cannot be walked to the end (live sockets of an agent).
NoError ==
    [kind |-> "none", status |-> NoStatus, data |-> << >>, message |-> << >>,
     config |-> << >>, cyclic |-> FALSE]
ResponseError(status, config) ==
    [kind |-> "response", status |-> status,
     data |-> <<StrE("_type", <<"Error">>), StrE("message", <<"failed">>)>>,
     message |-> <<"Request failed with status code">>, config |-> config,
     cyclic |-> FALSE]
TimeoutError(config, cyclic) ==
    [kind |-> "noResponse", status |-> NoStatus, data |-> << >>,
     message |-> <<"timeout of 15000ms exceeded">>, config |-> config,
     cyclic |-> cyclic]
TypeError ==
    [kind |-> "exception", status |-> NoStatus, data |-> << >>,
     message |-> <<"Cannot read properties of undefined">>, config |-> << >>,
     cyclic |-> FALSE]

\* axios.isAxiosError(error)
IsAxiosError(error) == error.kind \in {"response", "noResponse"}

\* isNotFoundError(error)
IsNotFoundErrorAny(error) == IsAxiosError(error)
IsNotFoundError(error) == IsAxiosError(error) /\ error.status = 404

\* getErrorMessage(error)
GetErrorMessage(error) ==
    IF IsAxiosError(error)
    THEN IF error.kind = "response"
         THEN SafeStringify(error.data)
         ELSE error.message \o <<" - ">>
              \o (IF error.cyclic THEN <<"[UNSERIALIZABLE]">>
                  ELSE SafeStringify(Redact(error.config)))
    ELSE error.message

\* A tool result with one text item.
TextResult(text) == [content |-> <<text>>]
missingConfigMessage ==
    <<"OpenProject configuration is missing. Please provide OPENPROJECT_API_KEY and OPENPROJECT_URL.">>
missingConfigResult == TextResult(missingConfigMessage)

\* catch of withOpenProject: `ERROR: ${getErrorMessage(error)}`
CaughtRethrown(error) == [content |-> << >>]
Caught(error) == TextResult(<<"ERROR: ">> \o GetErrorMessage(error))

\* The input of a call of openproject-delete-project / openproject-delete-task;
\* fault: the handler raises an error of its own before it sends anything.
DeleteTools == {"openproject-delete-project", "openproject-delete-task"}
DeleteInput(name, id, fault) == [name |-> name, id |-> id, fault |-> fault]

DeleteUrl(input) ==
    IF input.name = "openproject-delete-project"
    THEN <<"/projects/", input.id>>
    ELSE <<"/work_packages/", input.id>>

DeletedText(input) ==
    IF input.name = "openproject-delete-project"
    THEN <<"Successfully deleted project with ID: ", input.id>>
    ELSE <<"Successfully deleted task with ID: ", input.id>>

NotFoundText(input) ==
    IF input.name = "openproject-delete-project"
    THEN <<"Project with ID ", input.id, " not found. It might have already been deleted.">>
    ELSE <<"Task with ID ", input.id, " not found. It might have already been deleted.">>

NoResult == [content |-> << >>]

\* Final failures of a request (after the gateway's retries) other than 404.
ToolFailStatuses == {403, 409, 500}

\* How the backend can end a DELETE of url: 204 when the resource is there,
\* 404 when it is gone, a failure status or no response at all in either case.
DeleteOutcomes(settings, url, gone) ==
    LET config == RequestConfig(settings, "delete", url) IN
    (IF url \in gone THEN {ResponseError(404, config)} ELSE {NoError})
    \cup {ResponseError(st, config) : st \in ToolFailStatuses}
    \cup {TimeoutError(config, cyclic) : cyclic \in BOOLEAN}

\* withOpenProject(handler)(params, context) of a delete tool, up to its await:
\* the gateway is resolved; without one the result is missingConfigResult and
\* the handler is not called; else the handler runs and sends the DELETE.
ToolCall(contexts, inputs) ==
    /\ tool.pc = "idle"
    /\ \E ctx \in contexts, input \in inputs :
          LET api == GetOpenProjectApi(ctx.config, ctx.env)
              settings == ResolveConfig(ctx.config, ctx.env)
              url == DeleteUrl(input)
              call == [pc |-> "done", ctx |-> ctx, settings |-> settings,
                       input |-> input, handler |-> FALSE, requests |-> << >>,
                       err |-> NoError, raised |-> NoError, result |-> NoResult,
                       wasGone |-> url \in tool.gone, gone |-> tool.gone]
          IN  tool' = IF api.null
                      THEN [call EXCEPT !.result = missingConfigResult]
                      ELSE IF input.fault
                      THEN [call EXCEPT !.handler = TRUE, !.raised = TypeError,
                                        !.result = Caught(TypeError)]
                      ELSE [call EXCEPT !.pc = "await", !.handler = TRUE,
                                        !.requests = <<[method |-> "delete", url |-> url]>>]
    /\ UNCHANGED <<syncLocks, etagCache, backendEtag, coll, cur, inv, pcr, gw>>

\* The DELETE settles: success text, the not-found text on 404, and any other
\* error is rethrown to withOpenProject, which turns it into an ERROR result.
ToolSettled ==
    /\ tool.pc = "await"
    /\ \E err \in DeleteOutcomes(tool.settings, DeleteUrl(tool.input), tool.gone) :
          tool' = IF err = NoError
                  THEN [tool EXCEPT !.pc = "done",
                                    !.result = TextResult(DeletedText(tool.input)),
                                    !.gone = @ \cup {DeleteUrl(tool.input)}]
                  ELSE IF IsNotFoundError(err)
                  THEN [tool EXCEPT !.pc = "done", !.err = err,
                                    !.result = TextResult(NotFoundText(tool.input))]
                  ELSE [tool EXCEPT !.pc = "done", !.err = err, !.raised = err,
                                    !.result = Caught(err)]
    /\ UNCHANGED <<syncLocks, etagCache, backendEtag, coll, cur, inv, pcr, gw>>

\* The caller has the result; the backend keeps what was deleted.
ToolForget ==
    /\ tool.pc = "done"
    /\ tool' = [IdleTool EXCEPT !.gone = tool.gone]
    /\ UNCHANGED <<syncLocks, etagCache, backendEtag, coll, cur, inv, pcr, gw>>

(***************************************************************************)
(* openproject-upload-attachment.  A path is its parts in order, a string  *)
(* of digits or letters is the sequence of its characters, a content type  *)
(* is <<type, subtype>>.                                                   *)
(***************************************************************************)
DigitChars == {"0", "1", "2", "3", "4", "5", "6", "7", "8", "9"}

\* \d+ : one digit or more, and nothing else
DigitsOnly(id) == Len(id) >= 1 /\ \A n \in DOMAIN id : id[n] \in DigitChars

ApiPath(prefix, kind, id, tail, query) ==
    [prefix |-> prefix, kind |-> kind, id |-> id, tail |-> tail, query |-> query]

\* The text of a path.
PathText(apiPath) ==
    <<apiPath.prefix, "/", apiPath.kind, "/">> \o apiPath.id
    \o <<"/", apiPath.tail>> \o apiPath.query

\* The whitelist of guardUpload:
\* ^\/api\/v3\/(projects\/\d+|work_packages\/\d+|attachments\/\d+)\/attachments?(\?.*)?$
WhitelistedAny(apiPath) == TRUE
Whitelisted(apiPath) ==
    /\ apiPath.prefix = "/api/v3"
    /\ apiPath.kind \in {"projects", "work_packages", "attachments"}
    /\ DigitsOnly(apiPath.id)
    /\ apiPath.tail \in {"attachment", "attachments"}
    /\ apiPath.query = << >> \/ Head(apiPath.query) = "?"

\* contentBase64.length > 20 * 1024 * 1024 * 1.37, both sides times five
TooLarge(length) == length * 5 > 1024 * 1024 * 137

\* The content types guardUpload lets through:
\* application/pdf, image/.+, text/.+, application/octet-stream
NoContentType == <<"", "">>
AllowedContentType(contentType) ==
    \/ contentType = <<"application", "pdf">>
    \/ contentType[1] = "image" /\ contentType[2] # ""
    \/ contentType[1] = "text" /\ contentType[2] # ""
    \/ contentType = <<"application", "octet-stream">>

\* guardUpload(apiPath, contentBase64, contentType): NoResult stands for null
GuardUpload(apiPath, length, contentType) ==
    IF ~Whitelisted(apiPath) THEN TextResult(<<"ERROR: ", "invalid apiPath">>)
    ELSE IF TooLarge(length) THEN TextResult(<<"ERROR: ", "file too large (>20MB)">>)
    ELSE IF contentType # NoContentType /\ ~AllowedContentType(contentType)
    THEN TextResult(<<"ERROR: ", "unsupported contentType">>)
    ELSE NoResult

\* A hex checksum: the content it is the SHA-256 of, and the case it is
\* written in.  sha256Hex(buffer) is the lower-case one of the content.
NoChecksum == [of |-> "", upper |-> FALSE]
Checksum(content, upper) == [of |-> content, upper |-> upper]
Sha256Hex(content) == Checksum(content, FALSE)
ToLowerCase(checksum) == [checksum EXCEPT !.upper = FALSE]

\* `require` is not defined in an ES module: sha256Hex raises there.
ReferenceError ==
    [kind |-> "exception", status |-> NoStatus, data |-> << >>,
     message |-> <<"require is not defined">>, config |-> << >>,
     cyclic |-> FALSE]

\* The input of a call: the path, the file name, the content (named) and the
\* length of its base64 text, the content type, the checksum; hasRequire:
\* the build the call runs in defines `require`.
UploadInput(apiPath, content, length, contentType, checksum, hasRequire) ==
    [name |-> "openproject-upload-attachment", apiPath |-> apiPath,
     filename |-> "a.pdf", content |-> content, length |-> length,
     contentType |-> contentType, checksum |-> checksum,
     hasRequire |-> hasRequire]

\* `${apiPath}${apiPath.includes("?") ? "&" : "?"}filename=${...}`
UploadUrl(input) ==
    PathText(input.apiPath)
    \o <<IF \E n \in DOMAIN input.apiPath.query : input.apiPath.query[n] = "?"
         THEN "&" ELSE "?">>
    \o <<"filename=", input.filename>>

UploadedResult(input) ==
    [content |-> << <<"Uploaded attachment ", input.filename>>,
                    Json(<<StrE("_type", <<"Attachment">>),
                           StrE("fileName", <<input.filename>>)>>) >>]

\* How the backend can end the POST: 201, a failure status, no response.
UploadOutcomes(settings, url) ==
    LET config == RequestConfig(settings, "post", url) IN
    {NoError}
    \cup {ResponseError(st, config) : st \in ToolFailStatuses \cup {404}}
    \cup {TimeoutError(config, cyclic) : cyclic \in BOOLEAN}

\* withOpenProject(handler)(params, context) of the upload tool, up to its
\* await: guardUpload, then the checksum when one is given, then the POST.
UploadCall(contexts, inputs) ==
    /\ tool.pc = "idle"
    /\ \E ctx \in contexts, input \in inputs :
          LET api == GetOpenProjectApi(ctx.config, ctx.env)
              settings == ResolveConfig(ctx.config, ctx.env)
              guarded == GuardUpload(input.apiPath, input.length, input.contentType)
              call == [pc |-> "done", ctx |-> ctx, settings |-> settings,
                       input |-> input, handler |-> FALSE, requests |-> << >>,
                       err |-> NoError, raised |-> NoError, result |-> NoResult,
                       wasGone |-> FALSE, gone |-> tool.gone]
          IN  tool' = IF api.null
                      THEN [call EXCEPT !.result = missingConfigResult]
                      ELSE IF guarded # NoResult
                      THEN [call EXCEPT !.handler = TRUE, !.result = guarded]
                      ELSE IF input.checksum # NoChecksum /\ ~input.hasRequire
                      THEN [call EXCEPT !.handler = TRUE, !.raised = ReferenceError,
                                        !.result = Caught(ReferenceError)]
                      ELSE IF /\ input.checksum # NoChecksum
                              /\ Sha256Hex(input.content) # ToLowerCase(input.checksum)
                      THEN [call EXCEPT !.handler = TRUE,
                                        !.result = TextResult(<<"ERROR: ", "checksum mismatch">>)]
                      ELSE [call EXCEPT !.pc = "awaitPost", !.handler = TRUE,
                                        !.requests = <<[method |-> "post",
                                                        url |-> UploadUrl(input)]>>]
    /\ UNCHANGED <<syncLocks, etagCache, backendEtag, coll, cur, inv, pcr, gw>>

\* The POST settles: the two texts of a success, or the handler's own catch:
\* `ERROR: ${getErrorMessage(error)}`.
UploadSettled ==
    /\ tool.pc = "awaitPost"
    /\ \E err \in UploadOutcomes(tool.settings, UploadUrl(tool.input)) :
          tool' = IF err = NoError
                  THEN [tool EXCEPT !.pc = "done",
                                    !.result = UploadedResult(tool.input)]
                  ELSE [tool EXCEPT !.pc = "done", !.err = err,
                                    !.result = TextResult(<<"ERROR: ">>
                                                   \o GetErrorMessage(err))]
    /\ UNCHANGED <<syncLocks, etagCache, backendEtag, coll, cur, inv, pcr, gw>>

(***************************************************************************)
(* SpecUpload: the upload tool called with paths inside and outside the    *)
(* whitelist, contents at both sides of the size cap, content types and    *)
(* checksums that pass and that do not.                                    *)
(***************************************************************************)
UploadContexts ==
    {[config |-> [OPENPROJECT_API_KEY |-> "key1", OPENPROJECT_URL |-> "https://a.example",
                  OPENPROJECT_API_VERSION |-> Undefined],
      env |-> [OPENPROJECT_API_KEY |-> Undefined, OPENPROJECT_URL |-> Undefined,
               OPENPROJECT_API_VERSION |-> Undefined]]}

UploadPaths ==
    {ApiPath("/api/v3", "projects", <<"1", "2">>, "attachments", << >>),
     ApiPath("/api/v3", "work_packages", <<"7">>, "attachment", <<"?", "x=1">>),
     ApiPath("/api/v3", "attachments", <<"3">>, "attachments", << >>),
     ApiPath("", "projects", <<"1", "2">>, "attachments", << >>),
     ApiPath("/api/v3", "users", <<"1">>, "attachments", << >>),
     ApiPath("/api/v3", "projects", <<"a", "1">>, "attachments", << >>),
     ApiPath("/api/v3", "projects", << >>, "attachments", << >>),
     ApiPath("/api/v3", "projects", <<"1">>, "files", << >>),
     ApiPath("/api/v3", "projects", <<"1">>, "attachments", <<"/../x">>)}

\* 28730982 is the longest base64 text that passes the cap.
UploadLengths == {0, 28730982, 28730983}

UploadContentTypes ==
    {NoContentType, <<"application", "octet-stream">>, <<"application", "pdf">>,
     <<"image", "png">>, <<"text", "plain">>, <<"image", "">>,
     <<"application", "zip">>, <<"video", "mp4">>}

UploadChecksums ==
    {NoChecksum, Checksum("c1", FALSE), Checksum("c1", TRUE), Checksum("c2", FALSE)}

UploadInputs ==
    {UploadInput(apiPath, "c1", length, contentType, checksum, hasRequire) :
        apiPath \in UploadPaths, length \in UploadLengths,
        contentType \in UploadContentTypes, checksum \in UploadChecksums,
        hasRequire \in BOOLEAN}

InitUpload == InitSync(0, {FALSE})

NextUpload ==
    \/ UploadCall(UploadContexts, UploadInputs)
    \/ UploadSettled
    \/ ToolForget

SpecUpload == InitUpload /\ [][NextUpload]_vars

(***************************************************************************)
(* openproject-bulk-update-tasks.  An op is an object with optional id,    *)
(* lockVersion, subject, description, statusName, assigneeName; 0, NoLock  *)
(* and "" stand for the absent (falsy) ones.                               *)
(***************************************************************************)
BulkOp(id, subject, statusName, assigneeName) ==
    [id |-> id, subject |-> subject, description |-> "", lockVersion |-> NoLock,
     statusName |-> statusName, assigneeName |-> assigneeName]

\* A property of payload._links: not set, set to { href: null }, or to an href.
NoLink == <<"absent">>
NullHref == <<"null">>

\* The payload built from the op's own fields; links: payload._links exists.
BasePayload(op) ==
    [subject |-> op.subject, description |-> op.description,
     lockVersion |-> op.lockVersion, links |-> FALSE,
     status |-> NoLink, assignee |-> NoLink]

\* Object.keys(payload).length === 0
NoKeys(payload) ==
    /\ payload.subject = "" /\ payload.description = ""
    /\ payload.lockVersion = NoLock /\ ~payload.links

\* The names the backend knows under /statuses and /users.
KnownNames(path) == IF path = "/statuses" THEN {"Closed"} ELSE {"Ann"}

\* resolveByName(api, path, name) on a fulfilled GET: the href of the element
\* of that name, or null.
ResolveByName(path, name) ==
    IF name \in KnownNames(path) THEN <<path, "/", name>> ELSE NullHref

\* if (href) payload._links = payload._links || {}; payload._links[name] = { href };
\* the assignment is not under the if: without _links it raises a TypeError.
SetLink(payload, name, href) ==
    LET p == IF href # NullHref THEN [payload EXCEPT !.links = TRUE] ELSE payload IN
    IF ~p.links
    THEN [thrown |-> TRUE, payload |-> p]
    ELSE [thrown |-> FALSE, payload |-> [p EXCEPT ![name] = href]]

\* results.push({ op, result }) and, in catch, results.push({ op, error })
BulkResult(results, op, result) ==
    Append(results, [op |-> op, kind |-> "result", value |-> result])
BulkCaughtDropped(results, op, error) == results
BulkCaught(results, op, error) ==
    Append(results, [op |-> op, kind |-> "error", value |-> error])

\* One op from a stage of its iteration up to its next await (pc await...) or
\* to its entry in results (pc "next").
RECURSIVE RunOp(_, _, _, _)
RunOp(op, payload, results, stage) ==
    IF stage = "status"
    THEN IF op.statusName # ""
         THEN [pc |-> "awaitStatus", payload |-> payload, results |-> results]
         ELSE RunOp(op, payload, results, "assignee")
    ELSE IF stage = "assignee"
    THEN IF op.assigneeName # ""
         THEN [pc |-> "awaitAssignee", payload |-> payload, results |-> results]
         ELSE RunOp(op, payload, results, "apply")
    ELSE IF op.id = 0
    THEN [pc |-> "next", payload |-> payload,
          results |-> Append(results, [op |-> op, kind |-> "error",
                                       value |-> <<"no id provided">>])]
    ELSE IF NoKeys(payload)
    THEN [pc |-> "next", payload |-> payload,
          results |-> BulkResult(results, op, <<"noop">>)]
    ELSE [pc |-> "awaitPatch", payload |-> payload, results |-> results]

\* for (const op of ops) from the k-th op on, up to the next await or to the
\* end of the loop.
RECURSIVE BulkRun(_, _, _)
BulkRun(ops, k, results) ==
    IF k > Len(ops)
    THEN [pc |-> "done", k |-> k, payload |-> BasePayload(BulkOp(0, "", "", "")),
          results |-> results]
    ELSE LET r == RunOp(ops[k], BasePayload(ops[k]), results, "status") IN
         IF r.pc = "next" THEN BulkRun(ops, k + 1, r.results)
         ELSE [pc |-> r.pc, k |-> k, payload |-> r.payload, results |-> r.results]

\* The loop goes on after a step of the k-th op.
BulkContinue(ops, k, r) ==
    IF r.pc = "next" THEN BulkRun(ops, k + 1, r.results)
    ELSE [pc |-> r.pc, k |-> k, payload |-> r.payload, results |-> r.results]

\* The request an await of the loop has sent, and the call's state after a
\* run of the loop; at the end the two texts of the result.
BulkRequest(ops, r) ==
    IF r.pc = "awaitStatus" THEN [method |-> "get", path |-> "/statuses", k |-> r.k]
    ELSE IF r.pc = "awaitAssignee" THEN [method |-> "get", path |-> "/users", k |-> r.k]
    ELSE [method |-> "patch", path |-> "/work_packages", k |-> r.k]

BulkState(t, r) ==
    [t EXCEPT !.pc = r.pc, !.k = r.k, !.payload = r.payload, !.results = r.results,
              !.requests = IF r.pc = "done" THEN @ ELSE Append(@, BulkRequest(t.ops, r)),
              !.result = IF r.pc = "done"
                         THEN [ops |-> Len(t.ops), results |-> r.results]
                         ELSE @]

\* withOpenProject(handler)(params, context) of the bulk tool, up to its first
\* await.
BulkCall(contexts, opLists) ==
    /\ tool.pc = "idle"
    /\ \E ctx \in contexts, ops \in opLists :
          LET settings == ResolveConfig(ctx.config, ctx.env)
              call == [pc |-> "op", settings |-> settings, ops |-> ops, k |-> 1,
                       payload |-> BasePayload(BulkOp(0, "", "", "")),
                       results |-> << >>, requests |-> << >>,
                       result |-> [ops |-> 0, results |-> << >>],
                       gone |-> tool.gone]
          IN  tool' = BulkState(call, BulkRun(ops, 1, << >>))
    /\ UNCHANGED <<syncLocks, etagCache, backendEtag, coll, cur, inv, pcr, gw>>

\* The GET of resolveByName settles.  Rejected: the op's catch.  Fulfilled:
\* the link is set, or setting it raises into the op's catch.
BulkResolved ==
    /\ tool.pc \in {"awaitStatus", "awaitAssignee"}
    /\ LET op == tool.ops[tool.k]
           status == tool.pc = "awaitStatus"
           path == IF status THEN "/statuses" ELSE "/users"
           name == IF status THEN op.statusName ELSE op.assigneeName
           link == SetLink(tool.payload, IF status THEN "status" ELSE "assignee",
                           ResolveByName(path, name))
       IN  \E st \in {200} \cup ToolFailStatuses :
              LET r == IF Rejected(st)
                       THEN [pc |-> "next", payload |-> tool.payload,
                             results |-> BulkCaught(tool.results, op,
                                 GetErrorMessage(ResponseError(st, << >>)))]
                       ELSE IF link.thrown
                       THEN [pc |-> "next", payload |-> link.payload,
                             results |-> BulkCaught(tool.results, op,
                                 <<"Cannot set properties of undefined">>)]
                       ELSE RunOp(op, link.payload, tool.results,
                                  IF status THEN "assignee" ELSE "apply")
              IN  tool' = BulkState(tool, BulkContinue(tool.ops, tool.k, r))
    /\ UNCHANGED <<syncLocks, etagCache, backendEtag, coll, cur, inv, pcr, gw>>

\* patchWithConflictRetry settles: its response, or the error it throws.
BulkPatched ==
    /\ tool.pc = "awaitPatch"
    /\ LET op == tool.ops[tool.k] IN
       \E st \in {200} \cup ToolFailStatuses :
          LET results == IF Rejected(st)
                         THEN BulkCaught(tool.results, op,
                                  GetErrorMessage(ResponseError(st, << >>)))
                         ELSE BulkResult(tool.results, op, <<"WorkPackage">>)
          IN  tool' = BulkState(tool, BulkRun(tool.ops, tool.k + 1, results))
    /\ UNCHANGED <<syncLocks, etagCache, backendEtag, coll, cur, inv, pcr, gw>>

(***************************************************************************)
(* SpecBulk: bulk updates of up to MaxOps ops: plain ones, ones without id *)
(* or without any field, ones with names the backend knows or not.         *)
(***************************************************************************)
BulkOps ==
    {BulkOp(1, "s", "", ""), BulkOp(0, "s", "", ""), BulkOp(1, "", "", ""),
     BulkOp(1, "", "Closed", ""), BulkOp(1, "s", "Nope", ""),
     BulkOp(1, "", "Closed", "Nobody"), BulkOp(1, "", "", "Ann"),
     BulkOp(1, "s", "", "Nobody")}

InitBulk == InitSync(0, {FALSE})

NextBulk ==
    \/ BulkCall(UploadContexts, SeqsUpTo(BulkOps, MaxOps))
    \/ BulkResolved
    \/ BulkPatched
    \/ ToolForget

SpecBulk == InitBulk /\ [][NextBulk]_vars

(***************************************************************************)
(* openproject-list-projects-all.  The backend holds the projects          *)
(* 1..total and takes offset as the 1-indexed number of the page.          *)
(***************************************************************************)
\* The elements of GET /projects?pageSize=per&offset=offset.
ProjectsPage(total, per, offset) ==
    [i \in 1..Max(0, Min(per, total - (offset - 1) * per)) |-> (offset - 1) * per + i]

\* The two texts of the result.
ProjectsResult(all, per) ==
    [content |-> << <<"Projects: ", Len(all), " (fetched pagesize=", per, ")">>, all >>]

\* withOpenProject(handler)(params, context) up to the first await:
\* const per = params?.pageSize ?? 100; let offset = 1; const all = [];
ListAllCall(contexts, pageSizes, totals) ==
    /\ tool.pc = "idle"
    /\ \E ctx \in contexts, per \in pageSizes, total \in totals :
          tool' = [pc |-> "awaitPage", settings |-> ResolveConfig(ctx.config, ctx.env),
                   per |-> per, total |-> total, offset |-> 1, all |-> << >>,
                   requests |-> <<[method |-> "get", pageSize |-> per, offset |-> 1]>>,
                   err |-> NoError, result |-> NoResult, gone |-> tool.gone]
    /\ UNCHANGED <<syncLocks, etagCache, backendEtag, coll, cur, inv, pcr, gw>>

\* The GET of a page settles.  Its elements are pushed; an empty or short
\* page ends the loop, a full one makes offset += els.length and the next
\* GET.  A rejected GET is rethrown to withOpenProject.
ListAllPage ==
    /\ tool.pc = "awaitPage"
    /\ \E st \in {200} \cup ToolFailStatuses :
          LET els == ProjectsPage(tool.total, tool.per, tool.offset)
              all == tool.all \o els
              err == ResponseError(st, RequestConfig(tool.settings, "get", <<"/projects">>))
          IN  tool' = IF Rejected(st)
                      THEN [tool EXCEPT !.pc = "done", !.err = err, !.result = Caught(err)]
                      ELSE IF Len(els) = 0 \/ Len(els) < tool.per
                      THEN [tool EXCEPT !.pc = "done", !.all = all,
                                        !.result = ProjectsResult(all, tool.per)]
                      ELSE [tool EXCEPT !.all = all, !.offset = @ + Len(els),
                                        !.requests = Append(@,
                                            [method |-> "get", pageSize |-> tool.per,
                                             offset |-> tool.offset + Len(els)])]
    /\ UNCHANGED <<syncLocks, etagCache, backendEtag, coll, cur, inv, pcr, gw>>

(***************************************************************************)
(* SpecList: every page size up to MaxPageSize over every collection of up *)
(* to MaxProjects projects.                                                *)
(***************************************************************************)
InitList == InitSync(0, {FALSE})

NextList ==
    \/ ListAllCall(UploadContexts, 1..MaxPageSize, 0..MaxProjects)
    \/ ListAllPage
    \/ ToolForget

SpecList == InitList /\ [][NextList]_vars

(***************************************************************************)
(* SpecResolve: a wrapped tool called with every override and environment. *)
(***************************************************************************)
ResolveContexts ==
    Contexts(FullConfigs({Undefined, Absent, "override"}),
             FullConfigs({Undefined, Absent, "env"}))
ResolveInputs == {DeleteInput("openproject-delete-task", "7", FALSE)}

InitResolve == InitSync(0, {FALSE})

NextResolve ==
    \/ ToolCall(ResolveContexts, ResolveInputs)
    \/ ToolSettled
    \/ ToolForget

SpecResolve == InitResolve /\ [][NextResolve]_vars

(***************************************************************************)
(* SpecTool: the delete tools called under two usable configurations that  *)
(* differ in the API key and the base URL.                                 *)
(***************************************************************************)
ToolContexts ==
    {[config |-> [OPENPROJECT_API_KEY |-> key, OPENPROJECT_URL |-> url,
                  OPENPROJECT_API_VERSION |-> Undefined],
      env |-> [OPENPROJECT_API_KEY |-> Undefined, OPENPROJECT_URL |-> Undefined,
               OPENPROJECT_API_VERSION |-> Undefined]] :
        key \in {"key1", "key2"}, url \in {"https://a.example", "https://b.example"}}
ToolInputs ==
    {DeleteInput(name, "7", fault) : name \in DeleteTools, fault \in BOOLEAN}

InitTool == InitSync(0, {FALSE})

NextTool ==
    \/ ToolCall(ToolContexts, ToolInputs)
    \/ ToolSettled
    \/ ToolForget

SpecTool == InitTool /\ [][NextTool]_vars

(***************************************************************************)
(* Properties.                                                             *)
(***************************************************************************)
\* An invocation is between lock acquisition and lock release.
Holding(i) ==
    inv[i].pc \in {"pull", "fetch", "awaitPage", "item", "awaitNotify", "push",
                   "cand", "awaitWrite", "return", "raise"}

KeyOf(i) == LOCK_KEY(inv[i].prm.projectId)

Holders(key) == {i \in Inv : Holding(i) /\ KeyOf(i) = key}

Scopes == Projects \cup {GLOBAL_KEY}

\* C1: in every reachable state, for every sync scope (a project id or
\* "__global__"), at most one invocation is between acquiring and releasing the
\* lock of that scope.
C1_OneRunPerScope == \A key \in Scopes : Cardinality(Holders(key)) <= 1

\* C1 witness: a run of a project is suspended at an await while a second
\* invocation for the same project has been answered.
C1_Witness ==
    \E i, j \in Inv :
        /\ i # j
        /\ inv[i].pc \in {"awaitPage", "awaitNotify", "awaitWrite"}
        /\ inv[j].outcome.kind = "inProgress"
        /\ inv[j].prm.projectId = inv[i].prm.projectId

\* C2: a LockEntry exists only while the invocation that created it is between
\* acquisition and release: every invocation that took the lock has removed it
\* when it ends, by return or by exception, so an invocation is answered
\* `already in progress` only while another invocation holds its scope.
C2_LockReleasedOnEveryExit ==
    /\ [](\A key \in syncLocks : Holders(key) # {})
    /\ [][\A j \in Inv :
            (inv[j].pc = "idle" /\ inv'[j].outcome.kind = "inProgress")
                => \E i \in Inv \ {j} : Holding(i) /\ KeyOf(i) = inv'[j].outcome.key]_vars

\* C2 witness: a run has ended by an exception and the lock of its scope is free.
C2_Witness ==
    \E i \in Inv :
        /\ inv[i].pc = "done"
        /\ inv[i].outcome.kind = "error"
        /\ KeyOf(i) \notin syncLocks

\* C3: an invocation answered `already in progress` has sent no request and no
\* notification, and its step changes neither the locals of any other invocation
\* (pulled, pushed, errors, position) nor the lock map, the cache or the backend.
C3_RejectedRunChangesNothing ==
    [][\A j \in Inv :
        (inv[j].pc = "idle" /\ inv'[j].outcome.kind = "inProgress")
            => /\ inv'[j].log = << >>
               /\ inv'[j].results = NoResults
               /\ \A i \in Inv \ {j} : inv'[i] = inv[i]
               /\ syncLocks' = syncLocks
               /\ etagCache' = etagCache
               /\ coll' = coll]_vars

\* C3 witness: a run that was in flight when a second invocation for its project
\* was rejected has completed with a pulled item.
C3_Witness ==
    \E i, j \in Inv :
        /\ i # j
        /\ inv[j].outcome.kind = "inProgress"
        /\ inv[i].outcome.kind = "completed"
        /\ inv[i].prm.projectId = inv[j].prm.projectId
        /\ Len(inv[i].outcome.results.pulled) > 0

IsGet(e) == e.op = "GET"
IsNotify(e) == e.op = "notify"
IsPatch(e) == e.op = "PATCH"

\* An invocation has ended after taking the lock.
RanToEnd(i) ==
    inv[i].pc = "done" /\ inv[i].outcome.kind \notin {"inProgress", "missingConfig"}

\* C4: a non-dry-run push with a projectId over N candidates processes all of
\* them: the run completes, every candidate has either its entry in pushed or its
\* `push error` in errors (N-M and M), whatever the candidates before it did.
C4_BatchAlwaysCompletes ==
    \A i \in Inv :
        LET prm == inv[i].prm
            res == inv[i].outcome.results
        IN  (RanToEnd(i) /\ prm.direction = "push" /\ prm.itemsToPush.given
                /\ prm.projectId # NoProject /\ ~prm.dryRun)
            => /\ inv[i].outcome.kind = "completed"
               /\ Len(res.pushed) + Len(res.errors) = Len(prm.itemsToPush.items)
               /\ \A n \in 1..Len(res.errors) : res.errors[n].kind = "push error"

\* C5: in a non-dry-run push, an update whose PATCH was answered 409 is recorded
\* as an error only after the run has fetched the resource (the recovery of the
\* Conflict-Safe Update Protocol).
C5_UpdateThroughConflictProtocol ==
    \A i \in Inv :
        \A n \in 1..Len(inv[i].results.errors) :
            LET e == inv[i].results.errors[n] IN
            (e.kind = "push error" /\ e.status = 409 /\ e.item.id # 0)
                => \E m \in 1..Len(inv[i].log) :
                      /\ IsGet(inv[i].log[m])
                      /\ inv[i].log[m].url = WorkPackageUrl(e.item.id)

ExpectedOffsets(n, b) == [k \in 1..((n \div b) + 1) |-> (k - 1) * b]
Collection(n) == [j \in 1..n |-> j]
Offsets(log) == LET g == SelectSeq(log, IsGet) IN [k \in 1..Len(g) |-> g[k].offset]
Notified(log) == LET g == SelectSeq(log, IsNotify) IN [k \in 1..Len(g) |-> g[k].item]

\* C6: a pull with batch size B over a collection of N items, no backend request
\* failing and a notify callback given, sends page requests with offsets
\* 0, B, 2B, ... (floor(N/B)+1 of them), and ends with pulled equal to the
\* collection in backend order and one notification per item in that order.
C6_PullPagesInOrder ==
    \A i \in Inv :
        LET prm == inv[i].prm IN
        (RanToEnd(i) /\ prm.direction = "pull" /\ prm.projectId # NoProject
            /\ prm.hasNotify /\ ~inv[i].backendFailed)
        => /\ inv[i].outcome.kind = "completed"
           /\ Offsets(inv[i].log) = ExpectedOffsets(coll, prm.batchSize)
           /\ inv[i].outcome.results.pulled = Collection(coll)
           /\ Notified(inv[i].log) = Collection(coll)

\* C7: a failed notification leaves its item in pulled, appends exactly one
\* `notify error` for it, never ends the run by an exception (only a page fetch
\* does), and a pull whose page fetches all succeed ends with every item of the
\* collection pulled and forwarded, however many notifications failed.
C7_NotifyFailureIsRecordedOnly ==
    \A i \in Inv :
        LET me == inv[i]
            errs == me.results.errors
        IN  (me.prm.direction = "pull" /\ me.prm.projectId # NoProject)
            => /\ \A n \in 1..Len(errs) :
                    /\ errs[n].kind = "notify error"
                    /\ \E m \in 1..Len(me.results.pulled) :
                            me.results.pulled[m] = errs[n].item
                    /\ \A m \in 1..Len(errs) : m < n => errs[m].item < errs[n].item
               /\ (me.pc = "done" /\ me.outcome.kind = "error")
                    => IsGet(me.log[Len(me.log)])
               /\ (me.pc = "done" /\ me.outcome.kind = "completed")
                    => /\ me.outcome.results.pulled = Collection(coll)
                       /\ me.prm.hasNotify => Notified(me.log) = Collection(coll)

\* C7 witness: the notification of the first item failed, and the run completed
\* with at least three items pulled over more than one page.
C7_Witness ==
    \E i \in Inv :
        /\ inv[i].pc = "done"
        /\ inv[i].outcome.kind = "completed"
        /\ Len(inv[i].outcome.results.errors) > 0
        /\ inv[i].outcome.results.errors[1] = [kind |-> "notify error", item |-> 1]
        /\ Len(inv[i].outcome.results.pulled) >= 3
        /\ Len(Offsets(inv[i].log)) >= 2

\* C8: every invocation that took the lock ends by returning the aggregate
\* SyncResult; no failure is raised out of the run.
C8_RunReturnsSyncResult ==
    \A i \in Inv : RanToEnd(i) => inv[i].outcome.kind = "completed"

\* C9: one call of patchWithConflictRetry sends at most two PATCHes and at most
\* one GET; the GET and the second PATCH only after a 409 on the first PATCH; a
\* first PATCH failing otherwise is thrown at once, with nothing sent after it.
C9_AtMostOneRetry ==
    pcr.pc # "idle" =>
        /\ Len(SelectSeq(pcr.log, IsPatch)) <= 2
        /\ Len(SelectSeq(pcr.log, IsGet)) <= 1
        /\ Len(pcr.log) >= 2 =>
              /\ pcr.err = PcrError(1, 409)
              /\ IsPatch(pcr.log[1]) /\ IsGet(pcr.log[2])
        /\ Len(pcr.log) >= 3 => IsPatch(pcr.log[3])
        /\ (pcr.pc = "done" /\ pcr.outcome.kind = "thrown"
                /\ pcr.outcome.err.call = 1 /\ pcr.outcome.err.status # 409)
              => Len(pcr.log) = 1

\* C9 witness: a call has ended after PATCH (409), GET, PATCH.
C9_Witness ==
    /\ pcr.pc = "done"
    /\ Len(pcr.log) = 3

\* C10: when the first PATCH failed with 409 and the recovery did not succeed
\* (GET rejected, no numeric lockVersion, retried PATCH rejected), the error
\* thrown is the error of the first PATCH.
C10_OriginalConflictIsThrown ==
    (pcr.pc = "done" /\ pcr.outcome.kind = "thrown" /\ Len(pcr.log) >= 2)
        => pcr.outcome.err = PcrError(1, 409)

\* C10 witness: the retried PATCH was rejected and the call has thrown.
C10_Witness ==
    /\ pcr.pc = "done"
    /\ pcr.outcome.kind = "thrown"
    /\ Len(pcr.log) = 3

\* C11: when the first PATCH failed with 409 and the GET returned a numeric
\* lockVersion v, the second PATCH goes to the same URL with the same config and
\* with the original payload in which only lockVersion is replaced by v (added
\* when absent); v is what the backend answered to this GET, also when the
\* resource had been read and ETag-cached before.
C11_RetryUsesFetchedStamp ==
    (pcr.pc # "idle" /\ Len(pcr.log) >= 3) =>
        /\ IsNumber(pcr.latestLock)
        /\ pcr.log[3].url = pcr.log[1].url
        /\ pcr.log[3].config = pcr.log[1].config
        /\ pcr.log[3].payload = [pcr.payload EXCEPT !.lockVersion = pcr.latestLock]

\* C11 witness: the second PATCH is in flight after a conditional GET (the
\* resource was cached before) that returned a stamp other than the cached one.
C11_Witness ==
    /\ pcr.pc = "awaitPatch2"
    /\ pcr.inm # NoEtag
    /\ pcr.latestLock # pcr.inm[3]
    /\ pcr.latestLock # pcr.payload.lockVersion

\* A status the gateway is to retry: 429 or 500..599.
Transient(status) == status = 429 \/ status \in 500..599

\* C12: a failed attempt of a call is followed by a retry iff its status is 429
\* or 5xx and fewer than 4 retries were made for the call, whatever the method;
\* so a call makes at most 5 attempts, exactly 5 when every one fails with
\* 429/5xx; a successful attempt ends the call with its response; the error
\* that ends a call is the last attempt's own.
C12_RetryOnTransientUpToFour ==
    \A c \in Calls :
        LET call == gw.calls[c] IN
        /\ call.attempts <= 5
        /\ call.pc = "waiting" => (Transient(call.status) /\ call.attempts - 1 < 4)
        /\ (call.pc = "done" /\ call.outcome.kind = "rejected") =>
              /\ ~(Transient(call.status) /\ call.attempts - 1 < 4)
              /\ Transient(call.status) => call.attempts = 5
              /\ call.outcome.attempt = call.attempts
              /\ call.outcome.status = call.status
        /\ (call.pc = "done" /\ call.outcome.kind = "fulfilled") =>
              /\ call.status = 200
              /\ call.outcome.status = call.status
              /\ call.outcome.data \in {Rep(call.url, call.query, v) : v \in 0..MaxVer}

\* C12 witness: a POST has been rejected after 5 attempts, and a call has been
\* fulfilled on a retry.
C12_Witness ==
    /\ gw.calls[1].pc = "done" /\ gw.calls[1].method = "post"
    /\ gw.calls[1].outcome.kind = "rejected" /\ gw.calls[1].attempts = 5
    /\ gw.calls[2].pc = "done" /\ gw.calls[2].outcome.kind = "fulfilled"
    /\ gw.calls[2].attempts = 3

\* C13: the retry count the gateway keeps for a call is the number of retries
\* of that call alone, under any interleaving with other calls: a call's first
\* attempt is made with no retry counted, and a call that keeps failing with
\* 429/5xx gets its 4 retries whatever the other calls consumed.
C13_RetryCountPerCall ==
    \A c \in Calls :
        LET call == gw.calls[c] IN
        call.pc # "idle" =>
            /\ (IF call.retryCount = NoRetryCount THEN 0 ELSE call.retryCount)
                  = (IF call.pc = "waiting" THEN call.attempts ELSE call.attempts - 1)
            /\ (call.pc = "sent" /\ call.attempts = 1) => call.retryCount = NoRetryCount
            /\ (call.pc = "done" /\ call.outcome.kind = "rejected"
                    /\ Transient(call.status)) => call.attempts = 5

\* C13 witness: while a call waits for its last retry, another call that was
\* made later waits for its first one.
C13_Witness ==
    /\ gw.calls[1].pc = "waiting" /\ gw.calls[1].retryCount = 4
    /\ gw.calls[2].pc = "waiting" /\ gw.calls[2].retryCount = 1

\* Base delays of the retries 1..4, in milliseconds.
BaseDelays == <<200, 400, 800, 1600>>

\* C14: the delay before the k-th retry (k = 1..4) is 2^k * 100 + j ms with
\* 0 <= j < 100, that is base delays 200, 400, 800, 1600, each base greater
\* than the bases of the retries before it.
C14_BackoffDelay ==
    \A c \in Calls :
        LET call == gw.calls[c]
            k == call.attempts IN
        call.pc = "waiting" =>
            /\ k \in 1..4
            /\ \E j \in 0..99 :
                  /\ call.delay = Pow(2, k) * 100 + j
                  /\ call.delay - j = BaseDelays[k]
                  /\ \A n \in 1..(k - 1) : BaseDelays[n] < call.delay - j

\* C14 witness: a call waits for its 4th retry with the greatest jitter.
C14_Witness ==
    \E c \in Calls :
        /\ gw.calls[c].pc = "waiting"
        /\ gw.calls[c].attempts = 4
        /\ gw.calls[c].delay = 1699

\* The request signature of the spec: method (GET) plus URL and query.  The
\* entry of a signature is the last 200 GET response with an ETag stored for it.
StoredFor(hist, url, query) ==
    {n \in DOMAIN hist : hist[n].url = url /\ hist[n].query = query}
StoredUnder(hist, key) ==
    {n \in DOMAIN hist : CacheKey(hist[n].url) = key}
Last(S) == CHOOSE n \in S : \A m \in S : m <= n

\* Call c sends an attempt in this step.
Sends(c) == gw'.calls[c].attempts = gw.calls[c].attempts + 1

\* C15: a GET is sent with If-None-Match equal to the ETag last stored for its
\* signature, and without the header when nothing was stored for its signature.
C15_ConditionalIffStored ==
    [][\A c \in Calls :
         (Sends(c) /\ gw'.calls[c].method = "get") =>
            LET call == gw'.calls[c]
                S == StoredFor(gw.hist, call.url, call.query) IN
            call.inm = IF S # {} THEN gw.hist[Last(S)].etag ELSE NoEtag]_vars

\* C16: a GET answered with 304 while an entry exists for its signature ends
\* fulfilled, as a 200 with the body of the response stored for the signature.
C16_NotModifiedYieldsCachedBody ==
    \A c \in Calls :
        LET call == gw.calls[c]
            S == StoredFor(gw.hist, call.url, call.query) IN
        (call.pc = "done" /\ call.method = "get" /\ call.status = 304 /\ S # {}) =>
            /\ call.outcome.kind = "fulfilled"
            /\ call.outcome.status = 200
            /\ call.outcome.data = gw.hist[Last(S)].data

\* C17: the If-None-Match a GET is sent with was stored from a response to
\* the same signature (same URL and same query), and the body a GET returns is
\* a representation of its own URL and query.
C17_EntryOnlyForItsSignature ==
    \A c \in Calls :
        LET call == gw.calls[c] IN
        (call.pc # "idle" /\ call.method = "get") =>
            /\ call.inm # NoEtag =>
                  \E n \in StoredFor(gw.hist, call.url, call.query) :
                      gw.hist[n].etag = call.inm
            /\ (call.pc = "done" /\ call.outcome.kind = "fulfilled") =>
                  /\ call.outcome.data.url = call.url
                  /\ call.outcome.data.query = call.query

\* C18: the cache holds, under each key, exactly the ETag and the body of the
\* last GET response with status 200 and an ETag header received for the key,
\* and nothing under a key without such a response; so no other response, a
\* 304 with or without an ETag header included, creates or changes an entry.
C18_EntryIsLastOkGet ==
    \A key \in {CacheKey(r.url) : r \in CacheRequests} :
        LET S == StoredUnder(gw.hist, key) IN
        IF S = {}
        THEN key \notin DOMAIN etagCache
        ELSE /\ key \in DOMAIN etagCache
             /\ etagCache[key] = [etag |-> gw.hist[Last(S)].etag,
                                  data |-> gw.hist[Last(S)].data]

\* C18 witness: a GET was answered with 304 and the entry under its key holds
\* the body stored before.
C18_Witness ==
    \E c \in Calls :
        /\ gw.calls[c].pc = "done"
        /\ gw.calls[c].status = 304
        /\ CacheKey(gw.calls[c].url) \in DOMAIN etagCache
        /\ etagCache[CacheKey(gw.calls[c].url)].data # NoBody

\* C19: a step of a POST, PATCH or DELETE call (its request or its response,
\* successful or failed) leaves the ETag cache as it is.
C19_WritesLeaveCache ==
    [][\A c \in Calls :
         (gw'.calls[c] # gw.calls[c]
            /\ gw'.calls[c].method \in {"post", "patch", "delete"})
         => etagCache' = etagCache]_vars

\* C19 witness: a PATCH to a cached resource succeeded with an ETag header and
\* changed the resource; the entry still holds the representation read before.
C19_Witness ==
    \E c \in Calls :
        LET call == gw.calls[c] IN
        /\ call.pc = "done" /\ call.method = "patch"
        /\ call.outcome.kind = "fulfilled"
        /\ backendEtag
        /\ CacheKey(call.url) \in DOMAIN etagCache
        /\ etagCache[CacheKey(call.url)].data.ver # gw.ver

\* The key or the URL is absent after resolving override and environment.
MissingConfig(prm) ==
    \/ {prm.config.OPENPROJECT_API_KEY, prm.env.OPENPROJECT_API_KEY}
            \subseteq {Undefined, Absent}
    \/ {prm.config.OPENPROJECT_URL, prm.env.OPENPROJECT_URL} \subseteq {Undefined, Absent}

\* C20: when the API key or the base URL is absent after resolving override and
\* environment, getOpenProjectApi returns null and the wrapped tool ends with
\* the 'configuration is missing' result: its handler does not run, nothing is
\* sent to the backend, and the call leaves the locks and the cache untouched.
C20_MissingConfigDoesNothing ==
    /\ [](\A i \in Inv :
            (inv[i].pc # "idle" /\ MissingConfig(inv[i].prm)) =>
                /\ GetOpenProjectApi(inv[i].prm.config, inv[i].prm.env) = NoApi
                /\ inv[i].pc = "done"
                /\ inv[i].outcome = [kind |-> "missingConfig"]
                /\ inv[i].log = << >>
                /\ inv[i].results = NoResults)
    /\ [][\A i \in Inv :
            (inv[i].pc = "idle" /\ inv'[i].pc # "idle" /\ MissingConfig(inv'[i].prm)) =>
                /\ syncLocks' = syncLocks
                /\ etagCache' = etagCache
                /\ gw' = gw]_vars

\* C20 witness: a call whose override gives the key and whose URL is given
\* nowhere has ended with the 'configuration is missing' result.
C20_Witness ==
    /\ inv[1].pc = "done"
    /\ inv[1].outcome.kind = "missingConfig"
    /\ inv[1].prm.config.OPENPROJECT_API_KEY # Absent
    /\ inv[1].prm.config.OPENPROJECT_URL = Absent
    /\ inv[1].prm.env.OPENPROJECT_URL = Absent

\* A setting was supplied: it is neither undefined nor empty.
Supplied(v) == v # Undefined /\ v # Absent

\* C21: each of apiKey, baseUrl and apiVersion is resolved from its own
\* override and environment value alone: the override when one is supplied,
\* else the environment value, and for apiVersion else 'v3'.
C21_OverrideWins ==
    tool.pc # "idle" =>
        LET config == tool.ctx.config
            env == tool.ctx.env IN
        /\ tool.settings.apiKey =
              IF Supplied(config.OPENPROJECT_API_KEY) THEN config.OPENPROJECT_API_KEY
              ELSE env.OPENPROJECT_API_KEY
        /\ tool.settings.baseUrl =
              IF Supplied(config.OPENPROJECT_URL) THEN config.OPENPROJECT_URL
              ELSE env.OPENPROJECT_URL
        /\ tool.settings.apiVersion =
              IF Supplied(config.OPENPROJECT_API_VERSION)
              THEN config.OPENPROJECT_API_VERSION
              ELSE IF Supplied(env.OPENPROJECT_API_VERSION)
              THEN env.OPENPROJECT_API_VERSION
              ELSE "v3"

\* C21 witness: override and environment both give the URL and the override is
\* used; the key comes from the environment; no version is given anywhere.
C21_Witness ==
    /\ tool.pc = "await"
    /\ tool.ctx.config.OPENPROJECT_URL = "override"
    /\ tool.ctx.env.OPENPROJECT_URL = "env"
    /\ tool.settings.baseUrl = "override"
    /\ tool.ctx.config.OPENPROJECT_API_KEY = Undefined
    /\ tool.settings.apiKey = "env"
    /\ tool.ctx.config.OPENPROJECT_API_VERSION = Undefined
    /\ tool.ctx.env.OPENPROJECT_API_VERSION = Undefined
    /\ tool.settings.apiVersion = "v3"

\* A result whose first text starts with 'ERROR: '.
IsErrorResult(result) ==
    /\ Len(result.content) >= 1
    /\ Len(result.content[1]) >= 1
    /\ result.content[1][1] = "ERROR: "

\* C22: a delete tool whose DELETE is answered 404 returns the 'not found. It
\* might have already been deleted' result and no 'ERROR:' result; a DELETE
\* that fails otherwise yields an 'ERROR:' result; so the second of two deletes
\* of one resource, answered 404, reports no error.
C22_DeleteNotFoundIsNotAnError ==
    (tool.pc = "done" /\ tool.handler /\ tool.input.name \in DeleteTools
        /\ tool.err # NoError) =>
        /\ tool.err.status = 404 =>
              /\ tool.result = TextResult(NotFoundText(tool.input))
              /\ ~IsErrorResult(tool.result)
        /\ tool.err.status # 404 => IsErrorResult(tool.result)
        /\ (tool.wasGone /\ tool.err.kind = "response" /\ tool.err.status = 404) =>
              ~IsErrorResult(tool.result)

\* C22 witness: a resource that an earlier call deleted is deleted again, the
\* backend answers 404 and the call returns the not-found text.
C22_Witness ==
    /\ tool.pc = "done"
    /\ tool.wasGone
    /\ tool.err.status = 404
    /\ tool.result = TextResult(NotFoundText(tool.input))

\* The pieces of the texts of a result.
Pieces(result) ==
    UNION {{result.content[n][m] : m \in DOMAIN result.content[n]} :
              n \in DOMAIN result.content}

\* C23: the text of a result returned for a failure contains neither the API
\* key (alone or within the Authorization value) nor the base URL, so it is
\* the same for two runs that differ only in these.
C23_ErrorTextHasNoSecret ==
    (tool.pc = "done" /\ tool.raised # NoError) =>
        Pieces(tool.result) \cap {tool.settings.apiKey, tool.settings.baseUrl} = {}

\* C24: a call with a usable configuration ends with a result; whatever the
\* handler raised, the result is one text that starts with 'ERROR: '.
C24_RaisedBecomesErrorResult ==
    (tool.pc = "done" /\ tool.handler) =>
        /\ Len(tool.result.content) >= 1
        /\ tool.raised # NoError =>
              /\ Len(tool.result.content) = 1
              /\ IsErrorResult(tool.result)

\* C24 witness: the handler raised an error that is not an HTTP error.
C24_Witness ==
    /\ tool.pc = "done"
    /\ tool.raised.kind = "exception"
    /\ IsErrorResult(tool.result)

\* A write request of the push loop.
IsWrite(e) == e.op \in {"PATCH", "POST"}

\* C25: a run with dryRun set sends no POST and no PATCH; when its N push
\* candidates are all objects, the run ends with exactly N pushed entries, the
\* k-th being 'update' for a candidate with an id and 'create' for one without,
\* each carrying its candidate, and with no error recorded.
C25_DryRunWritesNothing ==
    \A i \in Inv :
        LET me == inv[i]
            items == me.prm.itemsToPush.items IN
        (me.pc # "idle" /\ me.prm.dryRun) =>
            /\ SelectSeq(me.log, IsWrite) = << >>
            /\ (RanToEnd(i) /\ WantsPush(me.prm) /\ me.prm.projectId # NoProject
                    /\ \A k \in DOMAIN items : items[k] \in ObjectCandidates) =>
                  /\ me.outcome.kind = "completed"
                  /\ Len(me.results.pushed) = Len(items)
                  /\ \A k \in DOMAIN items :
                        /\ me.results.pushed[k].item = items[k]
                        /\ me.results.pushed[k].action =
                              IF items[k] \in {CUpdate, CUpdateLock, CNoop}
                              THEN "update" ELSE "create"
                  /\ me.results.errors = << >>

\* C25 witness: a dry run over a candidate with an id and one without has ended.
C25_Witness ==
    /\ inv[1].pc = "done"
    /\ inv[1].prm.dryRun
    /\ inv[1].prm.itemsToPush.items = <<CUpdate, CCreate>>
    /\ Len(inv[1].results.pushed) = 2

\* An input the validation of the upload tool rejects, said without the
\* guard: a path outside the listed ones, a base64 text longer than the cap,
\* a content type outside the listed ones, a checksum of another content.
GoodPaths ==
    {ApiPath("/api/v3", "projects", <<"1", "2">>, "attachments", << >>),
     ApiPath("/api/v3", "work_packages", <<"7">>, "attachment", <<"?", "x=1">>),
     ApiPath("/api/v3", "attachments", <<"3">>, "attachments", << >>)}
GoodContentTypes ==
    {NoContentType, <<"application", "octet-stream">>, <<"application", "pdf">>,
     <<"image", "png">>, <<"text", "plain">>}
RejectedUpload(input) ==
    \/ input.apiPath \notin GoodPaths
    \/ input.length = 28730983
    \/ input.contentType \notin GoodContentTypes
    \/ input.checksum = Checksum("c2", FALSE)

\* C26: an upload whose input the validation rejects (path outside the
\* whitelist, content over the size cap, unsupported content type, checksum
\* that does not match) ends in an 'ERROR:' result and no backend request is
\* sent for it.
C26_RejectedUploadSendsNothing ==
    (tool.pc # "idle" /\ tool.handler
        /\ tool.input.name = "openproject-upload-attachment"
        /\ RejectedUpload(tool.input))
    => /\ tool.pc = "done"
       /\ tool.requests = << >>
       /\ IsErrorResult(tool.result)

C26_Witness ==
    /\ tool.pc = "done" /\ tool.handler
    /\ tool.input.name = "openproject-upload-attachment"
    /\ Whitelisted(tool.input.apiPath)
    /\ tool.input.checksum = Checksum("c2", FALSE)
    /\ tool.input.hasRequire
    /\ tool.result = TextResult(<<"ERROR: ", "checksum mismatch">>)
    /\ tool.requests = << >>

\* The invocation waits for a backend request or a notification to settle.
Awaiting(i) == inv[i].pc \in {"awaitPage", "awaitNotify", "awaitWrite"}

\* Invocation i sends a backend request or a notification in this step.
Issues(i) == inv'[i].pc # "idle" /\ Len(inv'[i].log) = Len(inv[i].log) + 1

\* C27: a run sends a backend request or a notification only when none of its
\* own is outstanding; it requests a page at offset k only after the k items
\* of the pages before were appended and, with a notify callback, their k
\* notifications were sent and settled; it sends a push write only after the
\* pull received its last (short) page and every item of it was appended and
\* notified.
C27_OneAtATime ==
    [][\A i \in Inv :
         Issues(i) =>
            LET me == inv[i]
                e == inv'[i].log[Len(inv'[i].log)]
                notes == IF me.prm.hasNotify THEN Len(me.results.pulled) ELSE 0
            IN  /\ ~Awaiting(i)
                /\ inv'[i].log = Append(me.log, e)
                /\ e.op = "GET" =>
                      /\ Len(me.results.pulled) = e.offset
                      /\ Len(Notified(me.log)) = notes
                /\ IsWrite(e) =>
                      /\ Offsets(me.log) # << >>
                      /\ Offsets(me.log)[Len(Offsets(me.log))] + me.prm.batchSize > coll
                      /\ Len(me.results.pulled) = coll
                      /\ Len(Notified(me.log)) = notes]_vars

\* C27 witness: a run with a notify callback over four items in pages of two
\* is waiting for its second push write: two full pages and a last empty one
\* were requested, four notifications and one write were sent before.
C27_Witness ==
    /\ inv[1].pc = "awaitWrite"
    /\ inv[1].prm.hasNotify /\ inv[1].prm.batchSize = 2 /\ coll = 4
    /\ Len(Offsets(inv[1].log)) = 3
    /\ Len(Notified(inv[1].log)) = 4
    /\ Len(SelectSeq(inv[1].log, IsWrite)) = 2

\* C28: while a run started with no project id (the global scope) is between
\* lock acquisition and lock release, no other run, of the global scope or of
\* a project, is between lock acquisition and lock release.
C28_GlobalExcludesEverything ==
    \A i \in Inv :
        (Holding(i) /\ inv[i].prm.projectId = NoProject)
            => \A j \in Inv \ {i} : ~Holding(j)

\* C29: a sync called for a project while no run of that project is in flight
\* is not answered `already in progress`, whatever runs of other projects are
\* in flight: it takes the lock and runs; and the end of a run of a project,
\* by return or by exception, leaves the LockEntry of every other project as
\* it was.
C29_ProjectsDoNotBlock ==
    [][\A j \in Inv :
         /\ (/\ inv[j].pc = "idle" /\ inv'[j].pc # "idle"
             /\ inv'[j].prm.projectId \in Projects
             /\ \A i \in Inv \ {j} :
                   Holding(i) => inv[i].prm.projectId # inv'[j].prm.projectId)
            => /\ inv'[j].outcome.kind # "inProgress"
               /\ inv'[j].pc = "pull"
               /\ inv'[j].prm.projectId \in syncLocks'
         /\ (Holding(j) /\ inv'[j].pc = "done" /\ inv[j].prm.projectId \in Projects)
            => \A key \in Projects \ {inv[j].prm.projectId} :
                  (key \in syncLocks') = (key \in syncLocks)]_vars

\* C29 witness: a run of one project has ended while a run of another project
\* is suspended at an await; the lock of the second is still there.
C29_Witness ==
    \E i, j \in Inv :
        /\ inv[i].pc = "done" /\ inv[i].outcome.kind \in {"completed", "error"}
        /\ Awaiting(j)
        /\ inv[i].prm.projectId \in Projects
        /\ inv[j].prm.projectId \in Projects \ {inv[i].prm.projectId}
        /\ Len(inv[i].log) > 0
        /\ syncLocks = {inv[j].prm.projectId}

\* C30: for every collection of N items and every batch size the schema
\* accepts, zero and negative ones included, the pull loop ends: every page
\* request but the last brings at least one item not seen before, so a run
\* sends at most N + 1 page requests and no request twice.
C30_PullLoopTerminates ==
    \A i \in Inv :
        LET o == Offsets(inv[i].log) IN
        /\ Len(o) <= coll + 1
        /\ \A m, n \in DOMAIN o : m < n => o[m] < o[n]

\* The `projectId is required` errors of a run without project id: one for
\* pull when the direction is pull or both, then one for push when the
\* direction is push or both and itemsToPush is an array.
RequiredErrors(prm) ==
    (IF prm.direction \in {"pull", "both"}
     THEN <<[kind |-> "projectId is required for pull direction"]>> ELSE << >>)
    \o (IF prm.direction \in {"push", "both"} /\ prm.itemsToPush.given
        THEN <<[kind |-> "projectId is required for push direction"]>> ELSE << >>)

\* C31: a sync called without project id holds the `__global__` lock while it
\* runs, sends no backend request and no notification, and ends completed with
\* nothing pulled, nothing pushed, exactly the `projectId is required` errors
\* of its direction, and the lock released.
C31_NoProjectOnlyRecordsErrors ==
    \A i \in Inv :
        (inv[i].pc # "idle" /\ inv[i].prm.projectId = NoProject) =>
            /\ inv[i].log = << >>
            /\ Holding(i) => GLOBAL_KEY \in syncLocks
            /\ inv[i].pc = "done" =>
                  /\ inv[i].outcome.kind = "completed"
                  /\ inv[i].outcome.results.pulled = << >>
                  /\ inv[i].outcome.results.pushed = << >>
                  /\ inv[i].outcome.results.errors = RequiredErrors(inv[i].prm)
                  /\ GLOBAL_KEY \notin syncLocks

C31_Witness ==
    /\ inv[1].pc = "done"
    /\ inv[1].prm.projectId = NoProject
    /\ inv[1].prm.direction = "both" /\ inv[1].prm.itemsToPush.given
    /\ Len(inv[1].outcome.results.errors) = 2
    /\ syncLocks = {}

\* C32: when a page request of the pull is rejected, the run stops there: the
\* failed GET is the last thing it sent, it sends no push write although the
\* direction is `both`, and it ends with the lock of its scope released and
\* the error result, which carries neither the items already pulled nor the
\* errors already recorded.
C32_PageFailureStopsRun ==
    \A i \in Inv :
        inv[i].thrown =>
            /\ inv[i].pc \in {"raise", "done"}
            /\ inv[i].log # << >>
            /\ inv[i].log[Len(inv[i].log)].op = "GET"
            /\ \A n \in DOMAIN inv[i].log : ~IsWrite(inv[i].log[n])
            /\ inv[i].pc = "done" =>
                  /\ inv[i].outcome = [kind |-> "error"]
                  /\ KeyOf(i) \notin syncLocks

\* C32 witness: a run of direction `both` with items to push has ended by the
\* failure of its third page request, after four items were pulled and a
\* notification error was recorded.
C32_Witness ==
    /\ inv[1].pc = "done" /\ inv[1].thrown /\ inv[1].backendFailed
    /\ inv[1].prm.direction = "both" /\ inv[1].prm.itemsToPush.given
    /\ Len(Offsets(inv[1].log)) = 3
    /\ Len(inv[1].results.pulled) = 4
    /\ inv[1].results.errors # << >>
    /\ inv[1].outcome.kind = "error"

\* C33: the LockEntry of a scope leaves the map only in the step in which the
\* invocation that created it ends; an invocation answered `already in
\* progress` and an invocation of another scope never remove it, so the entry
\* of a run in flight is in the map until that run ends.
C33_OnlyTheOwnerDeletes ==
    /\ [](\A i \in Inv : Holding(i) => KeyOf(i) \in syncLocks)
    /\ [][\A key \in Scopes :
            (key \in syncLocks /\ key \notin syncLocks')
                => \E i \in Inv :
                      /\ Holding(i) /\ KeyOf(i) = key
                      /\ inv'[i].pc = "done"
                      /\ inv'[i].outcome.kind \in {"completed", "error"}]_vars

\* C33 witness: an invocation was answered `already in progress` while the run
\* of its scope went on to its push write; the entry is still in the map.
C33_Witness ==
    \E i, j \in Inv :
        /\ inv[j].pc = "done" /\ inv[j].outcome.kind = "inProgress"
        /\ inv[i].pc = "awaitWrite"
        /\ inv[j].outcome.key = KeyOf(i)
        /\ KeyOf(i) \in syncLocks

\* C34: an attempt that fails without an HTTP status (timeout, connection
\* failure) is not retried: it ends its call rejected with that error, counts
\* as an error and not as a retry, and no further attempt of the call is sent;
\* a call whose first attempt fails so has made exactly one attempt.
C34_NoResponseIsNotRetried ==
    /\ [](\A c \in Calls :
            LET call == gw.calls[c] IN
            /\ call.pc = "waiting" => call.status # NoStatus
            /\ (call.pc = "done" /\ call.outcome.kind = "rejected"
                    /\ call.status = NoStatus /\ call.retryCount = 0)
                => call.attempts = 1)
    /\ [][\A c \in Calls :
            (/\ gw.calls[c].pc = "sent" /\ gw'.calls[c].pc # "sent"
             /\ gw'.calls[c].status = NoStatus)
            => /\ gw'.calls[c].pc = "done"
               /\ gw'.calls[c].outcome.kind = "rejected"
               /\ gw'.calls[c].outcome.status = NoStatus
               /\ gw'.calls[c].attempts = gw.calls[c].attempts
               /\ gw'.metrics.retries = gw.metrics.retries
               /\ gw'.metrics.errors = gw.metrics.errors + 1]_vars

\* C34 witness: the only call made so far was rejected without a status after
\* one attempt; one error and no retry are counted.
C34_Witness ==
    /\ gw.calls[1].pc = "done" /\ gw.calls[1].outcome.kind = "rejected"
    /\ gw.calls[1].status = NoStatus /\ gw.calls[1].attempts = 1
    /\ gw.calls[2].pc = "idle"
    /\ gw.metrics = [calls |-> 1, errors |-> 1, retries |-> 0]

\* C35: one call of patchWithConflictRetry sends at most 5 attempts of its
\* first PATCH, at most 5 of its GET and at most 5 of its second PATCH, the
\* gateway's retries counted, so at most 15 attempts in all; and no attempt
\* answered 409 is retried by the gateway.
C35_AtMostFifteenAttempts ==
    pcr.pc # "idle" =>
        /\ \A n \in 1..3 : pcr.attempts[n] \in 0..5
        /\ pcr.attempts[1] + pcr.attempts[2] + pcr.attempts[3] <= 15
        /\ Len(pcr.log) <= 3
        /\ 409 \notin pcr.retried
        /\ pcr.retried \subseteq {429} \cup 500..599

\* C35 witness: the second PATCH is at its fifth attempt after five attempts
\* of the first, which ended in a 409, and five of the GET.
C35_Witness ==
    /\ pcr.pc = "awaitPatch2"
    /\ pcr.attempts = <<5, 5, 5>>
    /\ pcr.err.status = 409

\* C36: the payload object of the caller of patchWithConflictRetry is the same
\* during and after the call as when it was passed (it is what the first PATCH
\* sent), whether the call returns or throws, with or without a retried PATCH.
C36_CallerPayloadUntouched ==
    pcr.pc # "idle" =>
        /\ pcr.log[1].op = "PATCH"
        /\ pcr.payload = pcr.log[1].payload

\* C36 witness: the call has ended after a second PATCH that carried a lock
\* version other than the caller's.
C36_Witness ==
    /\ pcr.pc = "done"
    /\ Len(pcr.log) = 3
    /\ pcr.log[3].payload.lockVersion # pcr.payload.lockVersion
    /\ pcr.log[3].payload.lockVersion = pcr.latestLock
    /\ pcr.outcome.kind = "thrown"

PlainOp(op) ==
    op.id # 0 /\ op.subject # "" /\ op.statusName = "" /\ op.assigneeName = ""

\* C38: a bulk update returns one entry per op, in the order of the ops, each
\* a result or an error of its op; while it runs the entries are those of the
\* ops before the one in hand; and whatever failed before it, a plain op gets
\* its PATCH sent.
C38_OneEntryPerOp ==
    /\ tool.pc \in {"awaitStatus", "awaitAssignee", "awaitPatch"} =>
          /\ tool.k \in 1..Len(tool.ops)
          /\ Len(tool.results) = tool.k - 1
    /\ tool.pc = "done" =>
          /\ tool.result.ops = Len(tool.ops)
          /\ Len(tool.result.results) = Len(tool.ops)
          /\ \A k \in 1..Len(tool.ops) :
                /\ tool.result.results[k].op = tool.ops[k]
                /\ tool.result.results[k].kind \in {"result", "error"}
                /\ PlainOp(tool.ops[k]) =>
                      \E n \in DOMAIN tool.requests :
                         /\ tool.requests[n].method = "patch"
                         /\ tool.requests[n].k = k

\* C38 witness: the first op failed on a status name the backend does not
\* know, the second was applied.
C38_Witness ==
    /\ tool.pc = "done"
    /\ Len(tool.ops) = 2
    /\ tool.ops[1].statusName = "Nope"
    /\ tool.result.results[1].kind = "error"
    /\ tool.result.results[1].value = <<"Cannot set properties of undefined">>
    /\ PlainOp(tool.ops[2])
    /\ tool.result.results[2].kind = "result"
    /\ tool.result.results[2].value = <<"WorkPackage">>

\* C39: a run of list-projects-all that ends without a failed request has
\* collected every project of the backend exactly once, in order.
C39_EveryProjectOnce ==
    (tool.pc = "done" /\ "all" \in DOMAIN tool /\ tool.err = NoError) =>
        tool.all = [i \in 1..tool.total |-> i]

\* What does hold: no project is collected twice, and offset grows with
\* every further page, so the run ends.
C39_NoProjectTwice ==
    (tool.pc \in {"awaitPage", "done"} /\ "all" \in DOMAIN tool) =>
        /\ \A m, n \in DOMAIN tool.all :
              /\ tool.all[m] \in 1..tool.total
              /\ m < n => tool.all[m] < tool.all[n]
        /\ \A n \in DOMAIN tool.requests :
              n > 1 => tool.requests[n].offset > tool.requests[n - 1].offset

====
